---- MODULE Spec2Model ----
(***************************************************************************)
(* A model of the devcon terminal core: characters, cells, lines, pages,   *)
(* the scroll-back history and the control-sequence parser.                *)
(*                                                                         *)
(* The module holds several specifications over one set of variables; each *)
(* specification drives one part of the core and leaves the variables of   *)
(* the other parts at their initial values.                                *)
(*   SpecChar    devcon_char_merge() applied to one character              *)
(*   SpecCsi     devcon_parser_feed() fed one CSI sequence, value by value *)
(*   SpecFeed    devcon_parser_feed() fed the same values on two parsers   *)
(*   SpecUtf8    devcon_utf8_decode() fed a stream of bytes                *)
(*   SpecLine    the line operations applied to one line                   *)
(*   SpecEdit    one write or erase on a line that holds letters           *)
(*   SpecPage    a page and a history under the operations that move lines *)
(*   SpecScroll  a written page scrolled up, then scrolled down or popped  *)
(*   SpecCells   one cell or row operation on a page full of letters       *)
(*   SpecHist    peeks and pops on a history while allocations fail        *)
(***************************************************************************)
EXTENDS Integers, Sequences, FiniteSets, TLC

VARIABLES
    cheap,      \* heap of struct devcon_character objects, by address
    ch,         \* SpecChar: the struct devcon_char being built
    chprev,     \* SpecChar: the value passed as @base to the last merge
    fed,        \* SpecChar: the code points passed to merge so far
    cfail,      \* number of failed allocations so far
    parser,     \* struct devcon_parser
    pret,       \* return value and *seq_out of the last devcon_parser_feed()
    input,      \* SpecCsi: the values to feed
    pos,        \* SpecCsi: number of values of @input fed so far
    scn,        \* SpecCsi: the sequence @input was built from
    lheap,      \* heap of struct devcon_line objects, by address
    page,       \* struct devcon_page
    hist,       \* struct devcon_history
    last,       \* the last operation: its name, arguments and result
    snap,       \* what the last operation found before it ran
    utf8,       \* struct devcon_utf8
    uout,       \* the last devcon_utf8_decode(): its byte, what the decoder
                \* held before it and the code points it returned
    window,     \* struct devcon_window, the locks and handler lists of the
                \* video and input layers, and where each thread stands
    terminal,   \* struct devcon_terminal and devcon_terminal_work
    tty         \* struct devcon_tty, its entry in devcon_tty_idr and the
                \* references held on its port

charVars == <<ch, chprev, fed>>
parserVars == <<parser, pret, input, pos, scn>>
pageVars == <<lheap, page, hist, last, snap>>
utf8Vars == <<utf8, uout>>
glueVars == <<window, terminal, tty>>
vars == <<cheap, ch, chprev, fed, cfail, parser, pret, input, pos, scn,
          lheap, page, hist, last, snap, utf8, uout, window, terminal, tty>>

(***************************************************************************)
(* Bounds of the model                                                     *)
(***************************************************************************)
\* addresses a struct devcon_character can be allocated at
MaxCharPtrs == 2
\* allocation failures injected in one behaviour
MaxAllocFail == 1
\* addresses a struct devcon_line can be allocated at
MaxLinePtrs == 7
\* columns and rows of the page of SpecPage, lines its history keeps
MaxCols == 2
MaxRows == 3
MaxHist == 2
\* allocations of one operation that can be made to fail
MaxAllocTries == 3
MaxScrollCols == 4
MaxScrollRows == 4
MaxScrollHist == 2
\* cells of the line of SpecLine
MaxLineCols == 3
\* code points of one cell of the line of SpecLine
MaxCellLen == 2
\* parameters of the CSI sequence of SpecCsi
MaxParams == 17
\* merges applied to the character of SpecChar
MaxMerges == 66
\* leading merges whose code point is drawn freely from CodePoints
FreeLen == 2
\* operations applied to the characters of SpecMerge
MaxMergeSteps == 3
\* columns and rows of the page of SpecReserve, operations applied to it,
\* the last allocation of an operation that can be made to fail
MaxResCols == 2
MaxResRows == 2
MaxResSteps == 2
MaxResTries == 6
\* values fed to the parsers of SpecFeed
\* the columns and rows of the pages that are resized, and the resizes in a row
MaxSizeCols == 2
MaxSizeRows == 3
MaxSizeSteps == 2
\* the widest line whose cells hold boxed characters, and the longest
\* character an append makes there
MaxOwnCols == 3
MaxOwnLen == 5
\* SpecTerminal: windows created, and worker runs after the force stop
MaxWindows == 3
MaxDeadRuns == 2
\* SpecTty: tty_structs user-space has on one TTY at a time
MaxUsers == 2
MaxFeed == 4
\* bytes fed to the decoder of SpecUtf8
MaxBytes == 5
\* cells of the line of SpecEdit
MaxEditCols == 5
\* the largest max_lines of the history of SpecQueue
MaxQueue == 2
\* lines of the history of SpecHist, the largest width popped to
MaxHistLines == 3
MaxPopWidth == 3
\* columns and rows of the page of SpecCells
MaxCellCols == 2
MaxCellRows == 2

Min(a, b) == IF a < b THEN a ELSE b
Max(a, b) == IF a > b THEN a ELSE b

(***************************************************************************)
(* Characters (page.c, struct devcon_char)                                 *)
(***************************************************************************)
DEVCON_CHAR_UCS4_MAX == 1114111          \* 0x10ffff
DEVCON_CHAR_UCS4_MASK == 2097151         \* 0x1fffff
DEVCON_CHAR_UCS4_REPLACEMENT == 65533    \* 0xfffd
\* soft-limit for combining-chars in devcon_char_build()
climit == 64

\* u64 _value, split by its tag: 0 is the null char, a set LSB marks three
\* packed 21-bit slots, everything else is a pointer to a devcon_character.
DEVCON_CHAR_NULL == [tag |-> "null", v1 |-> 0, v2 |-> 0, v3 |-> 0, ptr |-> 0]

CharPtrs == 1..MaxCharPtrs
\* a free address of the character heap
NoCharacter == [n |-> 0, codepoints |-> <<>>]

devcon_char_pack(v1, v2, v3) ==
    [tag |-> "packed",
     v1 |-> v1 % (DEVCON_CHAR_UCS4_MASK + 1),
     v2 |-> v2 % (DEVCON_CHAR_UCS4_MASK + 1),
     v3 |-> v3 % (DEVCON_CHAR_UCS4_MASK + 1),
     ptr |-> 0]
devcon_char_pack3(v1, v2, v3) == devcon_char_pack(v1, v2, v3)
devcon_char_pack2(v1, v2) == devcon_char_pack3(v1, v2, DEVCON_CHAR_UCS4_MAX + 1)
devcon_char_pack1(v1) == devcon_char_pack2(v1, DEVCON_CHAR_UCS4_MAX + 1)

\* number of characters packed (0..3)
devcon_char_unpack_two(packed) ==
    IF packed.v1 > DEVCON_CHAR_UCS4_MAX THEN 0
    ELSE IF packed.v2 > DEVCON_CHAR_UCS4_MAX THEN 1
    ELSE 2
devcon_char_unpack(packed) ==
    IF packed.v1 > DEVCON_CHAR_UCS4_MAX THEN 0
    ELSE IF packed.v2 > DEVCON_CHAR_UCS4_MAX THEN 1
    ELSE IF packed.v3 > DEVCON_CHAR_UCS4_MAX THEN 2
    ELSE 3

devcon_char_from_ptr(p) == [tag |-> "ptr", v1 |-> 0, v2 |-> 0, v3 |-> 0, ptr |-> p]
devcon_char_to_ptr(c) == c.ptr

devcon_char_is_null(c) == c.tag = "null"
devcon_char_is_allocated(c) == ~devcon_char_is_null(c) /\ c.tag # "packed"
devcon_char_same(a, b) == a = b

\* kmalloc(): the lowest free address, 0 (NULL) when @ok is false or no
\* address is left.
FreeCharPtrs(heap) == {p \in CharPtrs : heap[p] = NoCharacter}
CharKmalloc(heap, ok) ==
    IF ok /\ FreeCharPtrs(heap) # {}
    THEN CHOOSE p \in FreeCharPtrs(heap) : \A q \in FreeCharPtrs(heap) : p <= q
    ELSE 0

\* devcon_char_alloc(): the object has room for n + 1 code points, the last
\* one set to 0; the others are written by the caller.
devcon_char_alloc(heap, n, ok) ==
    LET p == CharKmalloc(heap, ok) IN
    [ptr |-> p,
     heap |-> IF p = 0 THEN heap
              ELSE [heap EXCEPT ![p] =
                       [n |-> n, codepoints |-> [i \in 1..(n + 1) |-> 0]]]]

devcon_char_free(heap, c) ==
    IF devcon_char_is_allocated(c)
    THEN [heap EXCEPT ![devcon_char_to_ptr(c)] = NoCharacter]
    ELSE heap

\* the soft-limit test of devcon_char_build()
SoftLimitReached_off(n) == n > climit
SoftLimitReached(n) == n >= climit

\* the code points copied from the old character into a freshly boxed one
CopyCodepoints_short(t, n) == [i \in 1..n |-> IF i = n THEN 0 ELSE t[i]]
CopyCodepoints(t, n) == [i \in 1..n |-> t[i]]

\* devcon_char_build(): [ch, heap, failed]; @ok decides whether an
\* allocation, if one is needed, succeeds.
devcon_char_build(heap, base, append_ucs4, ok) ==
    LET keep == [ch |-> base, heap |-> heap, failed |-> FALSE]
        fresh(c) == [ch |-> c, heap |-> heap, failed |-> FALSE]
        packedn == devcon_char_unpack(base)
        buf == <<base.v1, base.v2, base.v3>>
        box(t, n) ==
            IF SoftLimitReached(n) THEN keep
            ELSE LET a == devcon_char_alloc(heap, n + 1, ok) IN
                 IF a.ptr = 0 THEN [keep EXCEPT !.failed = TRUE]
                 ELSE [ch |-> devcon_char_from_ptr(a.ptr),
                       heap |-> [a.heap EXCEPT ![a.ptr].codepoints =
                                    [i \in 1..(n + 2) |->
                                        IF i <= n THEN CopyCodepoints(t, n)[i]
                                        ELSE IF i = n + 1 THEN append_ucs4
                                        ELSE 0]],
                       failed |-> FALSE]
    IN  IF append_ucs4 > DEVCON_CHAR_UCS4_MAX THEN keep
        ELSE IF devcon_char_is_null(base) THEN fresh(devcon_char_pack1(append_ucs4))
        ELSE IF ~devcon_char_is_allocated(base) THEN
            IF packedn = 0 THEN fresh(devcon_char_pack1(append_ucs4))
            ELSE IF packedn = 1 THEN
                IF climit < 2 THEN keep
                ELSE fresh(devcon_char_pack2(buf[1], append_ucs4))
            ELSE IF packedn = 2 THEN
                IF climit < 3 THEN keep
                ELSE fresh(devcon_char_pack3(buf[1], buf[2], append_ucs4))
            ELSE box(buf, packedn)
        ELSE box(heap[devcon_char_to_ptr(base)].codepoints,
                 heap[devcon_char_to_ptr(base)].n)

\* devcon_char_set()
devcon_char_set(heap, previous, append_ucs4) ==
    devcon_char_build(devcon_char_free(heap, previous), DEVCON_CHAR_NULL,
                      append_ucs4, TRUE)

\* devcon_char_merge() that frees the old character in every case
devcon_char_merge_free(heap, base, append_ucs4, ok) ==
    LET b == devcon_char_build(heap, base, append_ucs4, ok) IN
    [b EXCEPT !.heap = devcon_char_free(b.heap, base)]

\* devcon_char_merge(): the old character is freed iff a new one was built
devcon_char_merge(heap, base, append_ucs4, ok) ==
    LET b == devcon_char_build(heap, base, append_ucs4, ok) IN
    IF ~devcon_char_same(b.ch, base)
    THEN [b EXCEPT !.heap = devcon_char_free(b.heap, base)]
    ELSE b

\* devcon_char_dup() that returns the character it was given
devcon_char_dup_same(heap, c, ok) == [ch |-> c, heap |-> heap, failed |-> FALSE]

\* devcon_char_dup(): [ch, heap, failed]; @ok decides whether the
\* allocation, if one is needed, succeeds.
devcon_char_dup(heap, c, ok) ==
    IF ~devcon_char_is_allocated(c)
    THEN [ch |-> c, heap |-> heap, failed |-> FALSE]
    ELSE LET old == heap[devcon_char_to_ptr(c)]
             a == devcon_char_alloc(heap, old.n, ok)
         IN  IF a.ptr = 0
             THEN [ch |-> devcon_char_pack1(DEVCON_CHAR_UCS4_REPLACEMENT),
                   heap |-> heap, failed |-> TRUE]
             ELSE [ch |-> devcon_char_from_ptr(a.ptr),
                   heap |-> [a.heap EXCEPT ![a.ptr].codepoints =
                                [i \in 1..(old.n + 1) |->
                                    IF i <= old.n THEN old.codepoints[i]
                                    ELSE 0]],
                   failed |-> FALSE]

\* devcon_char_resolve(): the length and the zero-terminated string
devcon_char_resolve(heap, c) ==
    IF devcon_char_is_null(c) THEN [len |-> 0, str |-> <<0>>]
    ELSE IF devcon_char_is_allocated(c) THEN
        [len |-> heap[devcon_char_to_ptr(c)].n,
         str |-> heap[devcon_char_to_ptr(c)].codepoints]
    ELSE LET len == devcon_char_unpack(c)
             cache == <<c.v1, c.v2, c.v3>>
         IN  [len |-> len,
              str |-> [i \in 1..(len + 1) |-> IF i <= len THEN cache[i] ELSE 0]]

(***************************************************************************)
(* Cells (page.c, struct devcon_cell)                                      *)
(***************************************************************************)
\* struct devcon_attr: protect is the one field the page code reads; bold
\* stands for the fields it only copies
AttrZero == [protect |-> 0, bold |-> 0]
\* a const struct devcon_attr *: <<>> is NULL, <<a>> points to a
AttrOf(attr) == IF attr = <<>> THEN AttrZero ELSE attr[1]

\* a cell of zeroed memory (kzalloc, memset)
CellZero == [ch |-> DEVCON_CHAR_NULL, age |-> 0, attr |-> AttrZero, cwidth |-> 0]

devcon_cell_init(chr, cwidth, attr, age) ==
    [ch |-> chr, age |-> age, attr |-> AttrOf(attr), cwidth |-> cwidth]

\* the heap after devcon_char_free() of cells[from + 1 .. from + n]
RECURSIVE devcon_cell_destroy_n(_, _, _, _)
devcon_cell_destroy_n(heap, cells, from, n) ==
    IF n <= 0 THEN heap
    ELSE devcon_cell_destroy_n(devcon_char_free(heap, cells[from + 1].ch),
                               cells, from + 1, n - 1)

\* devcon_cell_set(): [cell, heap]
devcon_cell_set(heap, cell, chr, cwidth, attr, age) ==
    [cell |-> devcon_cell_init(chr, cwidth, attr, age),
     heap |-> IF ~devcon_char_same(chr, cell.ch)
              THEN devcon_char_free(heap, cell.ch) ELSE heap]

\* devcon_cell_append(): [cell, heap, failed]
devcon_cell_append(heap, cell, ucs4, age, ok) ==
    LET r == devcon_char_merge(heap, cell.ch, ucs4, ok) IN
    [cell |-> [cell EXCEPT !.ch = r.ch, !.age = age],
     heap |-> r.heap, failed |-> r.failed]

\* devcon_cell_init_n() on cells[from + 1 .. from + n]
devcon_cell_init_n(cells, from, n, attr, age) ==
    [i \in 1..Len(cells) |->
        IF from < i /\ i <= from + n
        THEN devcon_cell_init(DEVCON_CHAR_NULL, 0, attr, age)
        ELSE cells[i]]

\* devcon_cell_clear_n() on cells[from + 1 .. from + n]: [cells, heap]
devcon_cell_clear_n(heap, cells, from, n, attr, age) ==
    [cells |-> devcon_cell_init_n(cells, from, n, attr, age),
     heap |-> devcon_cell_destroy_n(heap, cells, from, n)]

(***************************************************************************)
(* Lines (page.c, struct devcon_line); cell x of the C array is            *)
(* cells[x + 1]                                                            *)
(***************************************************************************)
\* a line object that is not allocated
NoLine ==
    [alloc |-> FALSE, width |-> 0, n_cells |-> 0, cells |-> <<>>,
     age |-> 0, fill |-> 0]
\* devcon_line_new(): kzalloc
LineZero == [NoLine EXCEPT !.alloc = TRUE]

\* the cells krealloc() adds to a line in devcon_line_reserve()
NewCells(n, attr, age) ==
    IF attr = <<>> /\ age = 0
    THEN [i \in 1..n |-> CellZero]
    ELSE [i \in 1..n |-> devcon_cell_init(DEVCON_CHAR_NULL, 0, attr, age)]

\* the fill state devcon_line_reserve() leaves
ReserveFill(fill, protect_width) == Min(fill, protect_width)

\* devcon_line_reserve() that gives back the cells beyond those asked for
\* and those in use
devcon_line_reserve_shrink(heap, line, width, attr, age, protect_width, ok) ==
    LET keep == Max(width, line.width) IN
    IF width > line.n_cells /\ ~ok
    THEN [line |-> line, heap |-> heap, ret |-> -1]
    ELSE [line |-> [line EXCEPT
                      !.cells = IF keep > line.n_cells
                                THEN @ \o NewCells(keep - line.n_cells, attr, age)
                                ELSE SubSeq(@, 1, keep),
                      !.n_cells = keep,
                      !.fill = Min(@, protect_width)],
          heap |-> heap, ret |-> 0]

\* devcon_line_reserve(): [line, heap, ret]; ok tells whether krealloc()
\* succeeds
devcon_line_reserve(heap, line, width, attr, age, protect_width, ok) ==
    LET min_width == Min(line.n_cells, width)
        c == IF min_width > protect_width
             THEN devcon_cell_clear_n(heap, line.cells, protect_width,
                                      min_width - protect_width, attr, age)
             ELSE [cells |-> line.cells, heap |-> heap]
        cleared == [line EXCEPT !.cells = c.cells]
    IN  IF width > line.n_cells /\ ~ok
        THEN [line |-> cleared, heap |-> c.heap, ret |-> -1]
        ELSE
        LET grown == IF width > line.n_cells
                     THEN [cleared EXCEPT
                             !.cells = c.cells
                                 \o NewCells(width - line.n_cells, attr, age),
                             !.n_cells = width]
                     ELSE cleared
        IN  [line |-> [grown EXCEPT
                          !.fill = ReserveFill(line.fill, protect_width)],
             heap |-> c.heap, ret |-> 0]

devcon_line_set_width(line, width) ==
    LET w == IF width > line.n_cells THEN line.n_cells ELSE width IN
    [line EXCEPT !.width = w, !.fill = Min(line.fill, w)]

\* the number of cells an operation at @from works on: @num, cropped at the
\* end of the line
CropNum(line, from, num) ==
    IF from + num > line.width THEN line.width - from ELSE num

\* the fill state devcon_line_place() leaves after shifting cells
PlaceFill_uncropped(line, from, num) == Max(line.fill + num, from + num)
PlaceFill(line, from, num) ==
    Min(line.width, Max(line.fill + num, from + num))

\* devcon_line_place(): [line, heap]
devcon_line_place(heap, line, from, num0, head_char, head_cwidth, attr, age) ==
    LET num == CropNum(line, from, num0)
        move == line.width - from - num
        rem == Min(num, move)
    IN  IF from >= line.width \/ num = 0 THEN [line |-> line, heap |-> heap]
        ELSE IF rem > 0 THEN
            LET h1 == devcon_cell_destroy_n(heap, line.cells,
                                            line.width - rem, rem)
                moved == [i \in 1..line.n_cells |->
                            IF from + num < i /\ i <= from + num + move
                            THEN [line.cells[i - num] EXCEPT !.age = age]
                            ELSE line.cells[i]]
                head == [moved EXCEPT ![from + 1] =
                            devcon_cell_init(head_char, head_cwidth, attr, age)]
                tail == devcon_cell_init_n(head, from + 1, num - 1, attr, age)
            IN  [line |-> [line EXCEPT !.cells = tail,
                                       !.fill = PlaceFill(line, from, num)],
                 heap |-> h1]
        ELSE
            LET s == devcon_cell_set(heap, line.cells[from + 1], head_char,
                                     head_cwidth, attr, age)
                c == devcon_cell_clear_n(s.heap,
                                         [line.cells EXCEPT ![from + 1] = s.cell],
                                         from + 1, num - 1, attr, age)
            IN  [line |-> [line EXCEPT !.cells = c.cells, !.fill = line.width],
                 heap |-> c.heap]

\* devcon_line_write() that overwrites in insert mode as well
devcon_line_write_overwrite(heap, line, pos_x, chr, cwidth, attr, age, insert_mode) ==
    LET len == CropNum(line, pos_x, Max(1, cwidth)) IN
    IF pos_x >= line.width \/ len = 0 THEN [line |-> line, heap |-> heap]
    ELSE
        LET s == devcon_cell_set(heap, line.cells[pos_x + 1], chr, cwidth,
                                 attr, age)
            c == devcon_cell_clear_n(s.heap,
                                     [line.cells EXCEPT ![pos_x + 1] = s.cell],
                                     pos_x + 1, len - 1, attr, age)
        IN  [line |-> [line EXCEPT
                          !.cells = c.cells,
                          !.fill = Min(line.width, Max(line.fill, pos_x + len))],
             heap |-> c.heap]

\* devcon_line_write(): [line, heap]
devcon_line_write(heap, line, pos_x, chr, cwidth, attr, age, insert_mode) ==
    LET len == CropNum(line, pos_x, Max(1, cwidth)) IN
    IF pos_x >= line.width \/ len = 0 THEN [line |-> line, heap |-> heap]
    ELSE IF insert_mode
    THEN devcon_line_place(heap, line, pos_x, len, chr, cwidth, attr, age)
    ELSE
        LET s == devcon_cell_set(heap, line.cells[pos_x + 1], chr, cwidth,
                                 attr, age)
            c == devcon_cell_clear_n(s.heap,
                                     [line.cells EXCEPT ![pos_x + 1] = s.cell],
                                     pos_x + 1, len - 1, attr, age)
        IN  [line |-> [line EXCEPT
                          !.cells = c.cells,
                          !.fill = Min(line.width, Max(line.fill, pos_x + len))],
             heap |-> c.heap]

devcon_line_insert(heap, line, from, num, attr, age) ==
    devcon_line_place(heap, line, from, num, DEVCON_CHAR_NULL, 0, attr, age)

\* the fill state devcon_line_delete() leaves
DeleteFill(fill, from, num) ==
    IF from + num < fill THEN fill - num
    ELSE IF from < fill THEN from
    ELSE fill

\* devcon_line_delete(): [line, heap]
devcon_line_delete(heap, line, from, num0, attr, age) ==
    LET num == CropNum(line, from, num0)
        move == line.width - from - num
        rem == Min(num, move)
    IN  IF from >= line.width \/ num = 0 THEN [line |-> line, heap |-> heap]
        ELSE
        LET r == IF rem > 0 THEN
                    LET h1 == devcon_cell_destroy_n(heap, line.cells, from, rem)
                        moved == [i \in 1..line.n_cells |->
                                    IF from < i /\ i <= from + move
                                    THEN [line.cells[i + num] EXCEPT !.age = age]
                                    ELSE line.cells[i]]
                        tail == devcon_cell_init_n(moved, line.width - rem, rem,
                                                   attr, age)
                    IN  IF num > move
                        THEN devcon_cell_clear_n(h1, tail, from + move,
                                                 num - move, attr, age)
                        ELSE [cells |-> tail, heap |-> h1]
                 ELSE devcon_cell_clear_n(heap, line.cells, from, num, attr, age)
        IN  [line |-> [line EXCEPT !.cells = r.cells,
                                   !.fill = DeleteFill(line.fill, from, num)],
             heap |-> r.heap]

\* devcon_line_append(): [line, heap, failed]
devcon_line_append(heap, line, pos_x, ucs4, age, ok) ==
    IF pos_x >= line.width
    THEN [line |-> line, heap |-> heap, failed |-> FALSE]
    ELSE LET a == devcon_cell_append(heap, line.cells[pos_x + 1], ucs4, age, ok)
         IN  [line |-> [line EXCEPT !.cells[pos_x + 1] = a.cell],
              heap |-> a.heap, failed |-> a.failed]

\* the cells of [from, from + num) devcon_line_erase() skips
KeptCells(line, from, num, keep_protected) ==
    {i \in from..(from + num - 1) :
        keep_protected /\ line.cells[i + 1].attr.protect = 1}

\* last_protected of devcon_line_erase(): the last kept cell inside the
\* fill region, or 0
LastProtected(line, from, num, keep_protected) ==
    LET S == {i \in KeptCells(line, from, num, keep_protected) : i < line.fill}
    IN  IF S = {} THEN 0 ELSE CHOOSE i \in S : \A j \in S : j <= i

RECURSIVE EraseHeap(_, _, _)
\* the heap after devcon_cell_set(cell, DEVCON_CHAR_NULL, ...) on the cells
\* of the set S
EraseHeap(heap, cells, S) ==
    IF S = {} THEN heap
    ELSE LET i == CHOOSE j \in S : TRUE IN
         EraseHeap(devcon_cell_set(heap, cells[i + 1], DEVCON_CHAR_NULL, 0,
                                   <<>>, 0).heap,
                   cells, S \ {i})

\* devcon_line_erase(): [line, heap]
devcon_line_erase(heap, line, from, num0, attr, age, keep_protected) ==
    LET num == CropNum(line, from, num0)
        kept == KeptCells(line, from, num, keep_protected)
        erased == (from..(from + num - 1)) \ kept
        last_protected == LastProtected(line, from, num, keep_protected)
    IN  IF from >= line.width \/ num = 0 THEN [line |-> line, heap |-> heap]
        ELSE [line |-> [line EXCEPT
                !.cells = [i \in 1..line.n_cells |->
                             IF (i - 1) \in erased
                             THEN devcon_cell_init(DEVCON_CHAR_NULL, 0, attr, age)
                             ELSE line.cells[i]],
                !.fill = IF from < line.fill /\ from + num >= line.fill
                         THEN Max(from, last_protected) ELSE line.fill],
              heap |-> EraseHeap(heap, line.cells, erased)]

devcon_line_reset(heap, line, attr, age) ==
    devcon_line_erase(heap, line, 0, line.width, attr, age, FALSE)

\* devcon_line_free(): the heap after the cells' characters are released
devcon_line_free(heap, line) ==
    devcon_cell_destroy_n(heap, line.cells, 0, line.n_cells)

(***************************************************************************)
(* Pages and histories (page.c, struct devcon_page, struct devcon_history) *)
(***************************************************************************)
LinePtrs == 1..MaxLinePtrs

\* devcon_page_new(): kzalloc; lines holds the n_lines line pointers
PageZero ==
    [age |-> 0, lines |-> <<>>, n_lines |-> 0, width |-> 0, height |-> 0,
     scroll_idx |-> 0, scroll_num |-> 0, scroll_fill |-> 0]

\* a history without lines that keeps at most max lines; lines holds the
\* list of line pointers, first entry first
HistoryEmpty(max) == [lines |-> <<>>, n_lines |-> 0, max_lines |-> max]

NoOp == [op |-> "none", args |-> <<>>, ret |-> 0]

\* F(v), with v computed once
Bind(v, F(_)) == CHOOSE r \in {F(x) : x \in {v}} : TRUE

InitPageIdle ==
    /\ lheap = [p \in LinePtrs |-> NoLine]
    /\ page = PageZero
    /\ hist = HistoryEmpty(0)
    /\ last = NoOp
    /\ snap = <<>>

\* The page and history operations work on a record w that holds the two
\* heaps, the page and the history, the number of allocations tried so far
\* in the operation, the allocations that fail (those numbered fail.from to
\* fail.to), whether one has failed, the value the last call returned, and
\* the lines devcon_line_new() has made in the operation.
World(fail) ==
    [chars |-> cheap, lines |-> lheap, page |-> page, hist |-> hist,
     tries |-> 0, fail |-> fail, failed |-> FALSE, ret |-> 0, born |-> {}]
NoFail == [from |-> 1, to |-> 0]
\* whether the next kmalloc/krealloc succeeds
AllocOk(w) == ~(w.fail.from <= w.tries + 1 /\ w.tries + 1 <= w.fail.to)

\* devcon_line_new(): ret is the new line, or 0
LineNew(w) ==
    LET free == {q \in LinePtrs : ~w.lines[q].alloc}
        p == IF AllocOk(w) /\ free # {}
             THEN CHOOSE q \in free : \A o \in free : q <= o ELSE 0
    IN  [w EXCEPT !.tries = @ + 1, !.ret = p, !.failed = @ \/ p = 0,
                  !.born = IF p = 0 THEN @ ELSE @ \cup {p},
                  !.lines = IF p = 0 THEN @ ELSE [@ EXCEPT ![p] = LineZero]]

\* devcon_line_reserve() on line p: ret is its return value
LineReserveIn(w, p, width, attr, age, protect_width) ==
    Bind(devcon_line_reserve(w.chars, w.lines[p], width, attr, age,
                             protect_width, AllocOk(w)),
         LAMBDA r :
            [w EXCEPT !.tries = IF width > w.lines[p].n_cells THEN @ + 1 ELSE @,
                      !.failed = @ \/ r.ret < 0,
                      !.chars = r.heap, !.lines[p] = r.line, !.ret = r.ret])

\* devcon_line_free() on line p
LineFreeIn(w, p) ==
    [w EXCEPT !.chars = devcon_line_free(w.chars, w.lines[p]),
              !.lines[p] = NoLine]

\* devcon_line_reset() on line p
LineResetIn(w, p, attr, age) ==
    Bind(devcon_line_reset(w.chars, w.lines[p], attr, age),
         LAMBDA r : [w EXCEPT !.chars = r.heap, !.lines[p] = r.line])

\* the history after devcon_history_push() has linked line p at the tail:
\* the first line is dropped when the history is full
PushLimit(w) ==
    IF w.hist.n_lines >= w.hist.max_lines
    THEN Bind(LineFreeIn(w, Head(w.hist.lines)),
              LAMBDA f : [f EXCEPT !.hist.lines = Tail(@)])
    ELSE [w EXCEPT !.hist.n_lines = @ + 1]

devcon_history_push_head(w, p) ==
    Bind([w EXCEPT !.hist.lines = <<p>> \o @], LAMBDA a : PushLimit(a))
devcon_history_push(w, p) ==
    Bind([w EXCEPT !.hist.lines = Append(@, p)], LAMBDA a : PushLimit(a))

\* devcon_history_pop() that unlinks the line before it reserves it
devcon_history_pop_unlink_first(w, new_width, attr, age) ==
    IF w.hist.lines = <<>> THEN [w EXCEPT !.ret = 0]
    ELSE
        LET n == Len(w.hist.lines)
            p == w.hist.lines[n]
        IN  Bind(LineReserveIn([w EXCEPT !.hist.lines = SubSeq(@, 1, n - 1),
                                         !.hist.n_lines = @ - 1],
                               p, new_width, attr, age, w.lines[p].width),
                 LAMBDA r :
                    IF r.ret < 0 THEN [r EXCEPT !.ret = 0]
                    ELSE [r EXCEPT
                            !.lines[p] =
                                devcon_line_set_width(r.lines[p], new_width),
                            !.ret = p])

\* devcon_history_pop(): ret is the line, or 0
devcon_history_pop(w, new_width, attr, age) ==
    IF w.hist.lines = <<>> THEN [w EXCEPT !.ret = 0]
    ELSE
        LET n == Len(w.hist.lines)
            p == w.hist.lines[n]
        IN  Bind(LineReserveIn(w, p, new_width, attr, age, w.lines[p].width),
                 LAMBDA r :
                    IF r.ret < 0 THEN [r EXCEPT !.ret = 0]
                    ELSE [r EXCEPT
                            !.lines[p] =
                                devcon_line_set_width(r.lines[p], new_width),
                            !.hist.lines = SubSeq(@, 1, n - 1),
                            !.hist.n_lines = @ - 1,
                            !.ret = p])

\* devcon_history_peek() that counts the lines and reserves none
devcon_history_peek_count(w, num, max, reserve_width, attr, age) ==
    [w EXCEPT !.ret = Min(max, Len(w.hist.lines))]

RECURSIVE devcon_history_peek(_, _, _, _, _, _)
\* devcon_history_peek(), having looked at the last num lines: ret is the
\* number of lines that are ready
devcon_history_peek(w, num, max, reserve_width, attr, age) ==
    IF num >= Len(w.hist.lines) \/ num >= max THEN [w EXCEPT !.ret = num]
    ELSE
        LET p == w.hist.lines[Len(w.hist.lines) - num] IN
        Bind(LineReserveIn(w, p, reserve_width, attr, age, w.lines[p].width),
             LAMBDA r :
                IF r.ret < 0 THEN [r EXCEPT !.ret = num]
                ELSE devcon_history_peek(r, num + 1, max, reserve_width, attr,
                                         age))

RECURSIVE devcon_history_trim_tail(_, _)
\* devcon_history_trim() that removes the last line instead of the first
devcon_history_trim_tail(w, max) ==
    IF w.hist.n_lines > max /\ w.hist.lines # <<>>
    THEN Bind([LineFreeIn(w, w.hist.lines[Len(w.hist.lines)]) EXCEPT
                  !.hist.lines = SubSeq(@, 1, Len(@) - 1),
                  !.hist.n_lines = @ - 1],
              LAMBDA t : devcon_history_trim_tail(t, max))
    ELSE w

RECURSIVE devcon_history_trim(_, _)
devcon_history_trim(w, max) ==
    IF w.hist.n_lines > max /\ w.hist.lines # <<>>
    THEN Bind([LineFreeIn(w, Head(w.hist.lines)) EXCEPT
                  !.hist.lines = Tail(@), !.hist.n_lines = @ - 1],
              LAMBDA t : devcon_history_trim(t, max))
    ELSE w

devcon_history_clear(w) == devcon_history_trim(w, 0)

\* the line devcon_page_up() allocates for a line it hands to the history:
\* ret is the new line, or 0
UpNewLine(w, new_width, attr, age) ==
    Bind(LineNew(w), LAMBDA n :
        IF n.ret = 0 THEN n
        ELSE Bind(LineReserveIn(n, n.ret, new_width, attr, age, 0), LAMBDA r :
                IF r.ret < 0 THEN [LineFreeIn(r, n.ret) EXCEPT !.ret = 0]
                ELSE [r EXCEPT
                        !.lines[n.ret] =
                            devcon_line_set_width(r.lines[n.ret], w.page.width),
                        !.ret = n.ret]))

RECURSIVE UpLoop_kept(_, _, _, _, _, _, _, _)
\* the first loop of devcon_page_up() that reuses a line as it is
UpLoop_kept(w, cache, i, num, new_width, attr, age, history) ==
    IF i >= num THEN [w |-> w, cache |-> cache]
    ELSE
        LET line == w.page.lines[w.page.scroll_idx + i + 1] IN
        Bind(IF history THEN UpNewLine(w, new_width, attr, age)
             ELSE [w EXCEPT !.ret = 0],
             LAMBDA n :
                IF n.ret # 0
                THEN Bind(devcon_history_push(n, line), LAMBDA m :
                        UpLoop_kept(m, Append(cache, n.ret), i + 1, num,
                                    new_width, attr, age, history))
                ELSE UpLoop_kept(n, Append(cache, line), i + 1, num, new_width,
                                 attr, age, history))

RECURSIVE UpLoop(_, _, _, _, _, _, _, _)
\* the first loop of devcon_page_up() from round i on: [w, cache]
UpLoop(w, cache, i, num, new_width, attr, age, history) ==
    IF i >= num THEN [w |-> w, cache |-> cache]
    ELSE
        LET line == w.page.lines[w.page.scroll_idx + i + 1] IN
        Bind(IF history THEN UpNewLine(w, new_width, attr, age)
             ELSE [w EXCEPT !.ret = 0],
             LAMBDA n :
                IF n.ret # 0
                THEN Bind(devcon_history_push(n, line), LAMBDA m :
                        UpLoop(m, Append(cache, n.ret), i + 1, num, new_width,
                               attr, age, history))
                ELSE Bind(LineResetIn(n, line, attr, age), LAMBDA m :
                        UpLoop(m, Append(cache, line), i + 1, num, new_width,
                               attr, age, history)))

\* the lines of the scroll region after devcon_page_up() has moved them: the
\* lines that stay move up by num, the lines of the cache follow
UpLines_unmoved(pg, cache, num) ==
    [j \in 1..pg.n_lines |->
        IF pg.scroll_idx + pg.scroll_num - num < j
           /\ j <= pg.scroll_idx + pg.scroll_num
        THEN cache[j - (pg.scroll_idx + pg.scroll_num - num)]
        ELSE pg.lines[j]]
UpLines(pg, cache, num) ==
    [j \in 1..pg.n_lines |->
        IF pg.scroll_idx < j /\ j <= pg.scroll_idx + pg.scroll_num - num
        THEN pg.lines[j + num]
        ELSE IF pg.scroll_idx + pg.scroll_num - num < j
                /\ j <= pg.scroll_idx + pg.scroll_num
        THEN cache[j - (pg.scroll_idx + pg.scroll_num - num)]
        ELSE pg.lines[j]]

\* the line heap after the lines of positions S of the page got age @age
Aged(w, lines, S, age) ==
    [q \in LinePtrs |->
        IF \E j \in S : lines[j] = q THEN [w.lines[q] EXCEPT !.age = age]
        ELSE w.lines[q]]

devcon_page_up(w, new_width0, num0, attr, age, history) ==
    LET pg == w.page
        num == Min(num0, pg.scroll_num)
        new_width == Max(new_width0, pg.width)
    IN  IF num < 1 THEN w
        ELSE Bind(UpLoop(w, <<>>, 0, num, new_width, attr, age, history),
                  LAMBDA r :
                  Bind(UpLines(pg, r.cache, num), LAMBDA lines :
                    [r.w EXCEPT
                        !.page.lines = lines,
                        !.lines = Aged(r.w, lines,
                                       (pg.scroll_idx + 1)
                                           ..(pg.scroll_idx + pg.scroll_num - num),
                                       age),
                        !.page.scroll_fill = @ - Min(@, num)]))

RECURSIVE DownLoop_reversed(_, _, _, _, _, _, _, _)
\* the first loop of devcon_page_down() that fills the cache from its start
DownLoop_reversed(w, cache, i, num, new_width, attr, age, history) ==
    IF i >= num THEN [w |-> w, cache |-> cache]
    ELSE
        LET line == w.page.lines[w.page.scroll_idx + w.page.scroll_num - i] IN
        Bind(IF history THEN devcon_history_pop(w, new_width, attr, age)
             ELSE [w EXCEPT !.ret = 0],
             LAMBDA t :
                IF t.ret # 0
                THEN Bind(LineFreeIn(t, line), LAMBDA m :
                        DownLoop_reversed(m, Append(cache, t.ret), i + 1, num,
                                          new_width, attr, age, history))
                ELSE Bind(LineResetIn(t, line, attr, age), LAMBDA m :
                        DownLoop_reversed(m, Append(cache, line), i + 1, num,
                                          new_width, attr, age, history)))

RECURSIVE DownLoop(_, _, _, _, _, _, _, _)
\* the first loop of devcon_page_down() from round i on: [w, cache]
DownLoop(w, cache, i, num, new_width, attr, age, history) ==
    IF i >= num THEN [w |-> w, cache |-> cache]
    ELSE
        LET line == w.page.lines[w.page.scroll_idx + w.page.scroll_num - i] IN
        Bind(IF history THEN devcon_history_pop(w, new_width, attr, age)
             ELSE [w EXCEPT !.ret = 0],
             LAMBDA t :
                IF t.ret # 0
                THEN Bind(LineFreeIn(t, line), LAMBDA m :
                        DownLoop(m, <<t.ret>> \o cache, i + 1, num, new_width,
                                 attr, age, history))
                ELSE Bind(LineResetIn(t, line, attr, age), LAMBDA m :
                        DownLoop(m, <<line>> \o cache, i + 1, num, new_width,
                                 attr, age, history)))

\* the lines of the scroll region after devcon_page_down() has moved them
DownLines_unmoved(pg, cache, num) ==
    [j \in 1..pg.n_lines |->
        IF pg.scroll_idx < j /\ j <= pg.scroll_idx + num
        THEN cache[j - pg.scroll_idx]
        ELSE pg.lines[j]]
DownLines(pg, cache, num) ==
    [j \in 1..pg.n_lines |->
        IF pg.scroll_idx < j /\ j <= pg.scroll_idx + num
        THEN cache[j - pg.scroll_idx]
        ELSE IF pg.scroll_idx + num < j
                /\ j <= pg.scroll_idx + pg.scroll_num
        THEN pg.lines[j - num]
        ELSE pg.lines[j]]

devcon_page_down(w, new_width0, num0, attr, age, history) ==
    LET pg == w.page
        num == Min(num0, pg.scroll_num)
        new_width == Max(new_width0, pg.width)
    IN  IF num < 1 THEN w
        ELSE Bind(DownLoop(w, <<>>, 0, num, new_width, attr, age, history),
                  LAMBDA r :
                  Bind(DownLines(pg, r.cache, num), LAMBDA lines :
                    [r.w EXCEPT
                        !.page.lines = lines,
                        !.lines = Aged(r.w, lines,
                                       (pg.scroll_idx + num + 1)
                                           ..(pg.scroll_idx + pg.scroll_num),
                                       age),
                        !.page.scroll_fill =
                            IF @ > 0 THEN Min(pg.scroll_num, @ + num) ELSE @]))

LESS_BY(a, b) == IF a > b THEN a - b ELSE 0

RECURSIVE ReserveOld(_, _, _, _, _, _)
\* the first loop of devcon_page_reserve() from line i on: ret is 0, or
\* negative when a reservation failed
ReserveOld(w, i, min_lines, cols, attr, age) ==
    IF i >= min_lines THEN [w EXCEPT !.ret = 0]
    ELSE IF cols < w.page.width /\ i < w.page.height
    THEN ReserveOld(w, i + 1, min_lines, cols, attr, age)
    ELSE Bind(LineReserveIn(w, w.page.lines[i + 1], cols, attr, age,
                            IF i < w.page.height THEN w.page.width ELSE 0),
              LAMBDA r :
                IF r.ret < 0 THEN r
                ELSE ReserveOld(r, i + 1, min_lines, cols, attr, age))

RECURSIVE ReserveNew_linked(_, _, _, _, _)
\* the last loop of devcon_page_reserve(), with the new line stored in
\* page.lines before it is reserved
ReserveNew_linked(w, cols, rows, attr, age) ==
    IF w.page.n_lines >= rows THEN [w EXCEPT !.ret = 0]
    ELSE Bind(LineNew(w), LAMBDA n :
         IF n.ret = 0 THEN [n EXCEPT !.ret = -1]
         ELSE Bind([n EXCEPT !.page.lines = Append(@, n.ret),
                             !.page.n_lines = @ + 1],
                   LAMBDA m :
              Bind(LineReserveIn(m, n.ret, cols, attr, age, 0), LAMBDA r :
              IF r.ret < 0 THEN [LineFreeIn(r, n.ret) EXCEPT !.ret = -1]
              ELSE ReserveNew_linked(r, cols, rows, attr, age))))

RECURSIVE ReserveNew(_, _, _, _, _)
\* the last loop of devcon_page_reserve()
ReserveNew(w, cols, rows, attr, age) ==
    IF w.page.n_lines >= rows THEN [w EXCEPT !.ret = 0]
    ELSE Bind(LineNew(w), LAMBDA n :
         IF n.ret = 0 THEN [n EXCEPT !.ret = -1]
         ELSE Bind(LineReserveIn(n, n.ret, cols, attr, age, 0), LAMBDA r :
              IF r.ret < 0 THEN [LineFreeIn(r, n.ret) EXCEPT !.ret = -1]
              ELSE Bind([r EXCEPT !.page.lines = Append(@, n.ret),
                                  !.page.n_lines = @ + 1],
                        LAMBDA m : ReserveNew(m, cols, rows, attr, age))))

\* the lines devcon_page_reserve() grows to @cols cells
ReservedLines(pg, rows) == Min(pg.n_lines, rows)

\* devcon_page_reserve(): ret is its return value
devcon_page_reserve(w, cols, rows, attr, age) ==
    Bind(ReserveOld(w, 0, ReservedLines(w.page, rows), cols, attr, age),
         LAMBDA a :
            \* krealloc() of page->lines, then of page->line_cache
            LET b == [a EXCEPT !.tries = @ + 1]
                c == [b EXCEPT !.tries = @ + 1]
            IN  IF a.ret < 0 THEN a
                ELSE IF rows <= w.page.n_lines THEN a
                ELSE IF ~AllocOk(a) THEN [b EXCEPT !.ret = -1, !.failed = TRUE]
                ELSE IF ~AllocOk(b) THEN [c EXCEPT !.ret = -1, !.failed = TRUE]
                ELSE Bind(c, LAMBDA m : ReserveNew(m, cols, rows, attr, age)))

RECURSIVE SwapLines(_, _, _, _)
\* the lines after lines[top + i] and lines[bottom + i] were swapped for
\* the i of @order, in that order
SwapLines(lines, top, bottom, order) ==
    IF order = <<>> THEN lines
    ELSE LET i == Head(order) IN
         SwapLines([lines EXCEPT ![top + i + 1] = lines[bottom + i + 1],
                                 ![bottom + i + 1] = lines[top + i + 1]],
                   top, bottom, Tail(order))

\* the shrinking branch of devcon_page_resize() that moves the lower margin
\* from its last line to its first
ResizeShrink_bottomup(w, cols, rows, attr, age, history) ==
    LET old_height == w.page.height
        empty == w.page.scroll_num - w.page.scroll_fill
    IN  Bind(IF old_height - rows > empty
             THEN devcon_page_up(w, cols, old_height - rows - empty, attr, age,
                                 history)
             ELSE w,
             LAMBDA u :
                LET pg == u.page
                    num == Min(LESS_BY(old_height, pg.scroll_idx + pg.scroll_num),
                               LESS_BY(rows, pg.scroll_idx))
                IN  [u EXCEPT
                        !.page.lines = SwapLines(@, rows - num,
                                                 pg.scroll_idx + pg.scroll_num,
                                                 [k \in 1..num |-> num - k]),
                        !.page.height = rows,
                        !.page.scroll_idx = Min(pg.scroll_idx, rows),
                        !.page.scroll_num = @ - Min(@, old_height - rows)])

\* the shrinking branch of devcon_page_resize()
ResizeShrink(w, cols, rows, attr, age, history) ==
    LET old_height == w.page.height
        empty == w.page.scroll_num - w.page.scroll_fill
    IN  Bind(IF old_height - rows > empty
             THEN devcon_page_up(w, cols, old_height - rows - empty, attr, age,
                                 history)
             ELSE w,
             LAMBDA u :
                LET pg == u.page
                    num == Min(LESS_BY(old_height, pg.scroll_idx + pg.scroll_num),
                               LESS_BY(rows, pg.scroll_idx))
                IN  [u EXCEPT
                        !.page.lines = SwapLines(@, rows - num,
                                                 pg.scroll_idx + pg.scroll_num,
                                                 [k \in 1..num |-> k - 1]),
                        !.page.height = rows,
                        !.page.scroll_idx = Min(pg.scroll_idx, rows),
                        !.page.scroll_num = @ - Min(@, old_height - rows)])

\* the growing branch of devcon_page_resize()
ResizeGrow(w, cols, rows, attr, age, history) ==
    LET pg == w.page
        old_height == pg.height
        num == LESS_BY(old_height, pg.scroll_idx + pg.scroll_num)
        top == pg.scroll_idx + pg.scroll_num
    IN  Bind([w EXCEPT
                !.page.lines = SwapLines(@, top, top + (rows - old_height),
                                         [k \in 1..num |-> num - k]),
                !.page.height = rows,
                !.page.scroll_num =
                    Min(LESS_BY(rows, pg.scroll_idx),
                        pg.scroll_num + (rows - old_height))],
             LAMBDA g :
             Bind(IF history
                  THEN devcon_history_peek(g, 0, rows - old_height, cols, attr,
                                           age)
                  ELSE [g EXCEPT !.ret = 0],
                  LAMBDA k :
                    IF k.ret > 0
                    THEN devcon_page_down(k, cols, k.ret, attr, age, history)
                    ELSE k))

devcon_page_resize(w, cols, rows, attr, age, history) ==
    Bind(IF rows < w.page.height
         THEN ResizeShrink(w, cols, rows, attr, age, history)
         ELSE IF rows > w.page.height
         THEN ResizeGrow(w, cols, rows, attr, age, history)
         ELSE w,
         LAMBDA v :
            [v EXCEPT
                !.page.width = cols,
                !.lines = [q \in LinePtrs |->
                              IF \E i \in 1..v.page.height : v.page.lines[i] = q
                              THEN devcon_line_set_width(v.lines[q], cols)
                              ELSE v.lines[q]]])

devcon_page_write(w, pos_x, pos_y, chr, cwidth, attr, age, insert_mode) ==
    IF pos_y >= w.page.height THEN w
    ELSE LET p == w.page.lines[pos_y + 1] IN
         Bind(devcon_line_write(w.chars, w.lines[p], pos_x, chr, cwidth, attr,
                                age, insert_mode),
              LAMBDA r : [w EXCEPT !.chars = r.heap, !.lines[p] = r.line])

\* the scroll region devcon_page_set_scroll_region() sets
ScrollRegion_unclipped(pg, idx, num) ==
    [pg EXCEPT !.scroll_idx = idx, !.scroll_num = num]
ScrollRegion(pg, idx, num) ==
    IF pg.height < 1 THEN [pg EXCEPT !.scroll_idx = 0, !.scroll_num = 0]
    ELSE [pg EXCEPT !.scroll_idx = Min(idx, pg.height - 1),
                    !.scroll_num = Min(num, pg.height - Min(idx, pg.height - 1))]

devcon_page_set_scroll_region(w, idx, num) ==
    [w EXCEPT !.page = ScrollRegion(w.page, idx, num)]

devcon_page_scroll_up(w, num, attr, age, history) ==
    devcon_page_up(w, w.page.width, num, attr, age, history)

devcon_page_scroll_down(w, num, attr, age, history) ==
    devcon_page_down(w, w.page.width, num, attr, age, history)

devcon_page_insert_lines(w, pos_y, num0, attr, age) ==
    LET pg == w.page
        num == IF num0 >= pg.height THEN pg.height ELSE num0
        tmp == [pg EXCEPT
                  !.scroll_idx = pos_y,
                  !.scroll_num =
                      IF pos_y >= pg.scroll_idx + pg.scroll_num THEN 1
                      ELSE IF pos_y >= pg.scroll_idx
                      THEN @ - (pos_y - pg.scroll_idx)
                      ELSE @ + (pg.scroll_idx - pos_y)]
    IN  IF pos_y >= pg.height THEN w
        ELSE Bind([w EXCEPT !.page = tmp], LAMBDA t :
             Bind(devcon_page_scroll_down(t, num, attr, age, FALSE), LAMBDA d :
                [d EXCEPT !.page.scroll_idx = pg.scroll_idx,
                          !.page.scroll_num = pg.scroll_num]))

\* devcon_page_delete_lines() that leaves the narrowed scroll region in place
devcon_page_delete_lines_narrowed(w, pos_y, num0, attr, age) ==
    LET pg == w.page
        num == IF num0 >= pg.height THEN pg.height ELSE num0
        tmp == [pg EXCEPT
                  !.scroll_idx = pos_y,
                  !.scroll_num =
                      IF pos_y >= pg.scroll_idx + pg.scroll_num THEN 1
                      ELSE IF pos_y > pg.scroll_idx
                      THEN @ - (pos_y - pg.scroll_idx)
                      ELSE @ + (pg.scroll_idx - pos_y)]
    IN  IF pos_y >= pg.height THEN w
        ELSE Bind([w EXCEPT !.page = tmp], LAMBDA t :
                devcon_page_scroll_up(t, num, attr, age, FALSE))

devcon_page_delete_lines(w, pos_y, num0, attr, age) ==
    LET pg == w.page
        num == IF num0 >= pg.height THEN pg.height ELSE num0
        tmp == [pg EXCEPT
                  !.scroll_idx = pos_y,
                  !.scroll_num =
                      IF pos_y >= pg.scroll_idx + pg.scroll_num THEN 1
                      ELSE IF pos_y > pg.scroll_idx
                      THEN @ - (pos_y - pg.scroll_idx)
                      ELSE @ + (pg.scroll_idx - pos_y)]
    IN  IF pos_y >= pg.height THEN w
        ELSE Bind([w EXCEPT !.page = tmp], LAMBDA t :
             Bind(devcon_page_scroll_up(t, num, attr, age, FALSE), LAMBDA u :
                [u EXCEPT !.page.scroll_idx = pg.scroll_idx,
                          !.page.scroll_num = pg.scroll_num]))

\* devcon_page_get_cell() that looks at the row alone
devcon_page_get_cell_any_column(w, x, y) ==
    IF y >= w.page.height THEN <<>>
    ELSE <<[line |-> w.page.lines[y + 1], x |-> x]>>

\* devcon_page_get_cell(): <<>> is NULL, <<c>> the cell x of line c.line
devcon_page_get_cell(w, x, y) ==
    IF x >= w.page.width THEN <<>>
    ELSE IF y >= w.page.height THEN <<>>
    ELSE IF x >= w.lines[w.page.lines[y + 1]].width THEN <<>>
    ELSE <<[line |-> w.page.lines[y + 1], x |-> x]>>

devcon_page_insert_cells(w, from_x, from_y, num, attr, age) ==
    IF from_y >= w.page.height THEN w
    ELSE LET p == w.page.lines[from_y + 1] IN
         Bind(devcon_line_insert(w.chars, w.lines[p], from_x, num, attr, age),
              LAMBDA r : [w EXCEPT !.chars = r.heap, !.lines[p] = r.line])

devcon_page_delete_cells(w, from_x, from_y, num, attr, age) ==
    IF from_y >= w.page.height THEN w
    ELSE LET p == w.page.lines[from_y + 1] IN
         Bind(devcon_line_delete(w.chars, w.lines[p], from_x, num, attr, age),
              LAMBDA r : [w EXCEPT !.chars = r.heap, !.lines[p] = r.line])

\* devcon_page_append(); an allocation of devcon_char_merge() succeeds as
\* AllocOk(w) tells
devcon_page_append(w, pos_x, pos_y, ucs4, age) ==
    IF pos_y >= w.page.height THEN w
    ELSE LET p == w.page.lines[pos_y + 1] IN
         Bind(devcon_line_append(w.chars, w.lines[p], pos_x, ucs4, age,
                                 AllocOk(w)),
              LAMBDA r : [w EXCEPT !.chars = r.heap, !.lines[p] = r.line,
                                   !.failed = @ \/ r.failed])

RECURSIVE EraseLoop(_, _, _)
\* the loop of devcon_page_erase() from row i on; a holds the arguments
EraseLoop(w, i, a) ==
    IF ~(i <= a.to_y /\ i < w.page.height) THEN w
    ELSE
        LET from == IF i = a.from_y THEN a.from_x ELSE 0
            to == IF i = a.to_y THEN a.to_x ELSE w.page.width
            p == w.page.lines[i + 1]
        IN  Bind(devcon_line_erase(w.chars, w.lines[p], from, LESS_BY(to, from),
                                   a.attr, a.age, a.keep_protected),
                 LAMBDA r :
                    EraseLoop([w EXCEPT !.chars = r.heap, !.lines[p] = r.line],
                              i + 1, a))

devcon_page_erase(w, from_x, from_y, to_x, to_y, attr, age, keep_protected) ==
    EraseLoop(w, from_y,
              [from_x |-> from_x, from_y |-> from_y, to_x |-> to_x,
               to_y |-> to_y, attr |-> attr, age |-> age,
               keep_protected |-> keep_protected])

\* devcon_page_reset(); on a page without columns or rows the unsigned
\* width - 1 or height - 1 wraps and nothing is erased, as with -1 here
devcon_page_reset(w, attr, age) ==
    devcon_page_erase(w, 0, 0, w.page.width - 1, w.page.height - 1, attr, age,
                      FALSE)

(***************************************************************************)
(* Control-sequence parser (parser.c)                                      *)
(***************************************************************************)
DEVCON_PARSER_ARG_MAX == 16
\* the largest value parser_param() stores (0xffff)
ParamClamp == 65535

In(raw, lo, hi) == lo <= raw /\ raw <= hi

\* struct devcon_seq; intermediates is the set of collected characters
\* 0x20..0x3f (bit raw - 0x20 of the C bitmask), args[i] is args[i + 1] here.
\* st/n_st are written by parser_clear() alone and are left out.
SeqZero ==
    [type |-> "NONE", command |-> "NONE", terminator |-> 0,
     intermediates |-> {}, charset |-> "NONE", n_args |-> 0,
     args |-> [i \in 1..DEVCON_PARSER_ARG_MAX |-> 0]]

\* devcon_parser_new(): kzalloc()
devcon_parser_new == [state |-> "NONE", seq |-> SeqZero]

\* parser_clear() that leaves the arguments as they are
parser_clear_keep_args(seq) ==
    [seq EXCEPT !.command = "NONE", !.terminator = 0, !.intermediates = {},
                !.charset = "NONE", !.n_args = 0]

parser_clear(seq) ==
    [seq EXCEPT !.command = "NONE", !.terminator = 0, !.intermediates = {},
                !.charset = "NONE", !.n_args = 0,
                !.args = [i \in 1..DEVCON_PARSER_ARG_MAX |-> -1]]

\* devcon_parse_host_control()
devcon_parse_host_control(seq) ==
    CASE seq.terminator = 0 -> "NULL"
      [] seq.terminator = 5 -> "ENQ"
      [] seq.terminator = 7 -> "BEL"
      [] seq.terminator = 8 -> "BS"
      [] seq.terminator = 9 -> "HT"
      [] seq.terminator = 10 -> "LF"
      [] seq.terminator = 11 -> "VT"
      [] seq.terminator = 12 -> "FF"
      [] seq.terminator = 13 -> "CR"
      [] seq.terminator = 14 -> "SO"
      [] seq.terminator = 15 -> "SI"
      [] seq.terminator = 17 -> "DC1"
      [] seq.terminator = 19 -> "DC3"
      [] seq.terminator = 26 -> "SUB"
      [] seq.terminator = 132 -> "IND"
      [] seq.terminator = 133 -> "NEL"
      [] seq.terminator = 136 -> "HTS"
      [] seq.terminator = 141 -> "RI"
      [] seq.terminator = 142 -> "SS2"
      [] seq.terminator = 143 -> "SS3"
      [] seq.terminator = 150 -> "SPA"
      [] seq.terminator = 151 -> "EPA"
      [] seq.terminator = 154 -> "DECID"
      [] seq.terminator = 156 -> "ST"
      [] OTHER -> "NONE"

\* devcon_parse_host_escape() for a sequence without intermediates, which
\* names no charset, and the finals 'c', 'H', 'M', '\': [command, charset]
devcon_parse_host_escape(seq) ==
    LET flags == seq.intermediates IN
    [command |->
        CASE seq.terminator = 99 /\ flags = {} -> "RIS"
          [] seq.terminator = 72 /\ flags = {} -> "HTS"
          [] seq.terminator = 77 /\ flags = {} -> "RI"
          [] seq.terminator = 92 /\ flags = {} -> "ST"
          [] OTHER -> "NONE",
     charset |-> "NONE"]

\* devcon_parse_host_csi(): the finals the model feeds ('H', 'f', 'm', 'S',
\* 's', 'T')
\* devcon_parse_host_csi() that takes 'T' without flags for SD alone
devcon_parse_host_csi_sd(seq) ==
    LET flags == seq.intermediates IN
    CASE seq.terminator = 72 /\ flags = {} -> "CUP"
      [] seq.terminator = 102 /\ flags = {} -> "HVP"
      [] seq.terminator = 109 /\ flags = {} -> "SGR"
      [] seq.terminator = 109 /\ flags = {62} -> "XTERM_SRV"
      [] seq.terminator = 83 /\ flags = {} -> "SU"
      [] seq.terminator = 83 /\ flags = {63} -> "XTERM_SGFX"
      [] seq.terminator = 115 /\ flags = {} -> "DECSLRM_OR_SC"
      [] seq.terminator = 115 /\ flags = {36} -> "DECSPRTT"
      [] seq.terminator = 115 /\ flags = {42} -> "DECSFC"
      [] seq.terminator = 115 /\ flags = {63} -> "XTERM_SPM"
      [] seq.terminator = 84 /\ flags = {} -> "SD"
      [] seq.terminator = 84 /\ flags = {62} -> "XTERM_RTM"
      [] OTHER -> "NONE"

devcon_parse_host_csi(seq) ==
    LET flags == seq.intermediates IN
    CASE seq.terminator = 72 /\ flags = {} -> "CUP"
      [] seq.terminator = 102 /\ flags = {} -> "HVP"
      [] seq.terminator = 109 /\ flags = {} -> "SGR"
      [] seq.terminator = 109 /\ flags = {62} -> "XTERM_SRV"
      [] seq.terminator = 83 /\ flags = {} -> "SU"
      [] seq.terminator = 83 /\ flags = {63} -> "XTERM_SGFX"
      [] seq.terminator = 115 /\ flags = {} -> "DECSLRM_OR_SC"
      [] seq.terminator = 115 /\ flags = {36} -> "DECSPRTT"
      [] seq.terminator = 115 /\ flags = {42} -> "DECSFC"
      [] seq.terminator = 115 /\ flags = {63} -> "XTERM_SPM"
      [] seq.terminator = 84 /\ flags = {} /\ seq.n_args >= 5 -> "XTERM_IHMT"
      [] seq.terminator = 84 /\ flags = {} /\ seq.n_args < 5 -> "SD"
      [] seq.terminator = 84 /\ flags = {62} -> "XTERM_RTM"
      [] OTHER -> "NONE"

\* parser_ignore() that reports the value as a control character
parser_ignore_control(seq, raw) ==
    [parser_clear(seq) EXCEPT !.type = "CONTROL", !.command = "NONE",
                              !.terminator = raw, !.charset = "NONE"]

parser_ignore(seq, raw) ==
    [parser_clear(seq) EXCEPT !.type = "IGNORE", !.command = "NONE",
                              !.terminator = raw, !.charset = "NONE"]

parser_print(seq, raw) ==
    [parser_clear(seq) EXCEPT !.type = "GRAPHIC", !.command = "GRAPHIC",
                              !.terminator = raw, !.charset = "NONE"]

parser_execute(seq, raw) ==
    LET t == [parser_clear(seq) EXCEPT !.type = "CONTROL", !.command = "GRAPHIC",
                                       !.terminator = raw, !.charset = "NONE"]
    IN  [t EXCEPT !.command = devcon_parse_host_control(t)]

parser_collect(seq, raw) ==
    IF In(raw, 32, 63)
    THEN [seq EXCEPT !.intermediates = seq.intermediates \cup {raw}]
    ELSE seq

\* the index parser_param() leaves n_args at after a ';'
NextArg(n) == IF n < DEVCON_PARSER_ARG_MAX THEN n + 1 ELSE n
\* the value parser_param() stores for the accumulated number @new
ClampParam_none(new) == new
ClampParam(new) == IF new > ParamClamp THEN ParamClamp ELSE new

\* parser_param() that adds the digits of a parameter beyond the last to
\* the last argument
parser_param_last(seq, raw) ==
    IF raw = 59 THEN [seq EXCEPT !.n_args = NextArg(seq.n_args)]
    ELSE IF In(raw, 48, 57) THEN
        LET at == Min(seq.n_args + 1, DEVCON_PARSER_ARG_MAX)
            old == seq.args[at]
            new == (IF old < 0 THEN 0 ELSE old) * 10 + raw - 48
        IN  [seq EXCEPT !.args[at] = ClampParam(new)]
    ELSE seq

parser_param(seq, raw) ==
    IF raw = 59 THEN [seq EXCEPT !.n_args = NextArg(seq.n_args)]
    ELSE IF seq.n_args >= DEVCON_PARSER_ARG_MAX THEN seq
    ELSE IF In(raw, 48, 57) THEN
        LET old == seq.args[seq.n_args + 1]
            new == (IF old < 0 THEN 0 ELSE old) * 10 + raw - 48
        IN  [seq EXCEPT !.args[seq.n_args + 1] = ClampParam(new)]
    ELSE seq

parser_esc(seq, raw) ==
    LET t == [seq EXCEPT !.type = "ESCAPE", !.command = "NONE",
                         !.terminator = raw, !.charset = "NONE"]
        r == devcon_parse_host_escape(t)
    IN  [t EXCEPT !.command = r.command, !.charset = r.charset]

parser_csi(seq, raw) ==
    LET n == IF seq.n_args < DEVCON_PARSER_ARG_MAX
                /\ (seq.n_args > 0 \/ seq.args[seq.n_args + 1] >= 0)
             THEN seq.n_args + 1 ELSE seq.n_args
        t == [seq EXCEPT !.n_args = n, !.type = "CSI", !.command = "NONE",
                         !.terminator = raw, !.charset = "NONE"]
    IN  [t EXCEPT !.command = devcon_parse_host_csi(t)]

\* parser_transition(): [parser, ret]; a state of "NONE" keeps the state
parser_transition(self, raw, state, action) ==
    LET st == IF state # "NONE" THEN state ELSE self.state
        done(seq) == [parser |-> [state |-> st, seq |-> seq], ret |-> seq.type]
        none(seq) == [parser |-> [state |-> st, seq |-> seq], ret |-> "NONE"]
    IN  CASE action = "CLEAR" -> none(parser_clear(self.seq))
          [] action = "IGNORE" -> done(parser_ignore(self.seq, raw))
          [] action = "PRINT" -> done(parser_print(self.seq, raw))
          [] action = "EXECUTE" -> done(parser_execute(self.seq, raw))
          [] action = "COLLECT" -> none(parser_collect(self.seq, raw))
          [] action = "PARAM" -> none(parser_param(self.seq, raw))
          [] action = "ESC_DISPATCH" -> done(parser_esc(self.seq, raw))
          [] action = "CSI_DISPATCH" -> done(parser_csi(self.seq, raw))
          [] OTHER -> none(self.seq)

\* parser_feed_to_state(): the <<state, action>> of the transition taken
StateEdge(state, raw) ==
    CASE state \in {"NONE", "GROUND"} ->
            IF In(raw, 0, 31) \/ In(raw, 128, 155) \/ In(raw, 157, 159)
            THEN <<"NONE", "EXECUTE">>
            ELSE IF raw = 156 THEN <<"NONE", "IGNORE">>
            ELSE <<"NONE", "PRINT">>
      [] state = "ESC" ->
            IF In(raw, 0, 31) THEN <<"NONE", "EXECUTE">>
            ELSE IF In(raw, 32, 47) THEN <<"ESC_INT", "COLLECT">>
            ELSE IF In(raw, 48, 79) \/ In(raw, 81, 87) \/ In(raw, 89, 90)
                    \/ raw = 92 \/ In(raw, 96, 126)
            THEN <<"GROUND", "ESC_DISPATCH">>
            ELSE IF raw = 80 THEN <<"DCS_ENTRY", "CLEAR">>
            ELSE IF raw = 91 THEN <<"CSI_ENTRY", "CLEAR">>
            ELSE IF raw = 93 THEN <<"OSC_STRING", "CLEAR">>
            ELSE IF raw \in {88, 94, 95} THEN <<"ST_IGNORE", "NONE">>
            ELSE IF raw = 127 THEN <<"NONE", "IGNORE">>
            ELSE IF raw = 156 THEN <<"GROUND", "IGNORE">>
            ELSE <<"ESC_INT", "COLLECT">>
      [] state = "ESC_INT" ->
            IF In(raw, 0, 31) THEN <<"NONE", "EXECUTE">>
            ELSE IF In(raw, 32, 47) THEN <<"NONE", "COLLECT">>
            ELSE IF In(raw, 48, 126) THEN <<"GROUND", "ESC_DISPATCH">>
            ELSE IF raw = 127 THEN <<"NONE", "IGNORE">>
            ELSE IF raw = 156 THEN <<"GROUND", "IGNORE">>
            ELSE <<"NONE", "COLLECT">>
      [] state = "CSI_ENTRY" ->
            IF In(raw, 0, 31) THEN <<"NONE", "EXECUTE">>
            ELSE IF In(raw, 32, 47) THEN <<"CSI_INT", "COLLECT">>
            ELSE IF raw = 58 THEN <<"CSI_IGNORE", "NONE">>
            ELSE IF In(raw, 48, 57) \/ raw = 59 THEN <<"CSI_PARAM", "PARAM">>
            ELSE IF In(raw, 60, 63) THEN <<"CSI_PARAM", "COLLECT">>
            ELSE IF In(raw, 64, 126) THEN <<"GROUND", "CSI_DISPATCH">>
            ELSE IF raw = 127 THEN <<"NONE", "IGNORE">>
            ELSE IF raw = 156 THEN <<"GROUND", "IGNORE">>
            ELSE <<"CSI_IGNORE", "NONE">>
      [] state = "CSI_PARAM" ->
            IF In(raw, 0, 31) THEN <<"NONE", "EXECUTE">>
            ELSE IF In(raw, 32, 47) THEN <<"CSI_INT", "COLLECT">>
            ELSE IF In(raw, 48, 57) \/ raw = 59 THEN <<"NONE", "PARAM">>
            ELSE IF raw = 58 \/ In(raw, 60, 63) THEN <<"CSI_IGNORE", "NONE">>
            ELSE IF In(raw, 64, 126) THEN <<"GROUND", "CSI_DISPATCH">>
            ELSE IF raw = 127 THEN <<"NONE", "IGNORE">>
            ELSE IF raw = 156 THEN <<"GROUND", "IGNORE">>
            ELSE <<"CSI_IGNORE", "NONE">>
      [] state = "CSI_INT" ->
            IF In(raw, 0, 31) THEN <<"NONE", "EXECUTE">>
            ELSE IF In(raw, 32, 47) THEN <<"NONE", "COLLECT">>
            ELSE IF In(raw, 48, 63) THEN <<"CSI_IGNORE", "NONE">>
            ELSE IF In(raw, 64, 126) THEN <<"GROUND", "CSI_DISPATCH">>
            ELSE IF raw = 127 THEN <<"NONE", "IGNORE">>
            ELSE IF raw = 156 THEN <<"GROUND", "IGNORE">>
            ELSE <<"CSI_IGNORE", "NONE">>
      [] state = "CSI_IGNORE" ->
            IF In(raw, 0, 31) THEN <<"NONE", "EXECUTE">>
            ELSE IF In(raw, 32, 63) THEN <<"NONE", "NONE">>
            ELSE IF In(raw, 64, 126) THEN <<"GROUND", "NONE">>
            ELSE IF raw = 127 THEN <<"NONE", "IGNORE">>
            ELSE IF raw = 156 THEN <<"GROUND", "IGNORE">>
            ELSE <<"NONE", "NONE">>
      [] state = "DCS_ENTRY" ->
            IF In(raw, 0, 31) THEN <<"NONE", "IGNORE">>
            ELSE IF In(raw, 32, 47) THEN <<"DCS_INT", "COLLECT">>
            ELSE IF raw = 58 THEN <<"DCS_IGNORE", "NONE">>
            ELSE IF In(raw, 48, 57) \/ raw = 59 THEN <<"DCS_PARAM", "PARAM">>
            ELSE IF In(raw, 60, 63) THEN <<"DCS_PARAM", "COLLECT">>
            ELSE IF In(raw, 64, 126) THEN <<"DCS_PASS", "DCS_CONSUME">>
            ELSE IF raw = 127 THEN <<"NONE", "IGNORE">>
            ELSE IF raw = 156 THEN <<"GROUND", "IGNORE">>
            ELSE <<"DCS_PASS", "DCS_CONSUME">>
      [] state = "DCS_PARAM" ->
            IF In(raw, 0, 31) THEN <<"NONE", "IGNORE">>
            ELSE IF In(raw, 32, 47) THEN <<"DCS_INT", "COLLECT">>
            ELSE IF In(raw, 48, 57) \/ raw = 59 THEN <<"NONE", "PARAM">>
            ELSE IF raw = 58 \/ In(raw, 60, 63) THEN <<"DCS_IGNORE", "NONE">>
            ELSE IF In(raw, 64, 126) THEN <<"DCS_PASS", "DCS_CONSUME">>
            ELSE IF raw = 127 THEN <<"NONE", "IGNORE">>
            ELSE IF raw = 156 THEN <<"GROUND", "IGNORE">>
            ELSE <<"DCS_PASS", "DCS_CONSUME">>
      [] state = "DCS_INT" ->
            IF In(raw, 0, 31) THEN <<"NONE", "IGNORE">>
            ELSE IF In(raw, 32, 47) THEN <<"NONE", "COLLECT">>
            ELSE IF In(raw, 48, 63) THEN <<"DCS_IGNORE", "NONE">>
            ELSE IF In(raw, 64, 126) THEN <<"DCS_PASS", "DCS_CONSUME">>
            ELSE IF raw = 127 THEN <<"NONE", "IGNORE">>
            ELSE IF raw = 156 THEN <<"GROUND", "IGNORE">>
            ELSE <<"DCS_PASS", "DCS_CONSUME">>
      [] state = "DCS_PASS" ->
            IF In(raw, 0, 126) THEN <<"NONE", "DCS_COLLECT">>
            ELSE IF raw = 127 THEN <<"NONE", "IGNORE">>
            ELSE IF raw = 156 THEN <<"GROUND", "DCS_DISPATCH">>
            ELSE <<"NONE", "DCS_COLLECT">>
      [] state = "DCS_IGNORE" ->
            IF In(raw, 0, 127) THEN <<"NONE", "IGNORE">>
            ELSE IF raw = 156 THEN <<"GROUND", "NONE">>
            ELSE <<"NONE", "NONE">>
      [] state = "OSC_STRING" ->
            IF In(raw, 0, 6) \/ In(raw, 8, 31) THEN <<"NONE", "IGNORE">>
            ELSE IF In(raw, 32, 127) THEN <<"NONE", "OSC_COLLECT">>
            ELSE IF raw = 7 \/ raw = 156 THEN <<"GROUND", "OSC_DISPATCH">>
            ELSE <<"NONE", "OSC_COLLECT">>
      [] state = "ST_IGNORE" ->
            IF In(raw, 0, 127) THEN <<"NONE", "IGNORE">>
            ELSE IF raw = 156 THEN <<"GROUND", "IGNORE">>
            ELSE <<"NONE", "NONE">>

parser_feed_to_state(self, raw) ==
    LET e == StateEdge(self.state, raw) IN
    parser_transition(self, raw, e[1], e[2])

\* GlobalEdge() without the edge of CAN
GlobalEdge_no_can(raw) ==
    CASE raw = 26 -> <<"GROUND", "EXECUTE">>
      [] In(raw, 128, 143) \/ In(raw, 145, 151) \/ In(raw, 153, 154) ->
            <<"GROUND", "EXECUTE">>
      [] raw = 27 -> <<"ESC", "CLEAR">>
      [] raw \in {152, 158, 159} -> <<"ST_IGNORE", "NONE">>
      [] raw = 144 -> <<"DCS_ENTRY", "CLEAR">>
      [] raw = 157 -> <<"OSC_STRING", "CLEAR">>
      [] raw = 155 -> <<"CSI_ENTRY", "CLEAR">>
      [] OTHER -> <<>>

\* the edges devcon_parser_feed() takes from every state
GlobalEdge(raw) ==
    CASE raw = 24 -> <<"GROUND", "IGNORE">>
      [] raw = 26 -> <<"GROUND", "EXECUTE">>
      [] In(raw, 128, 143) \/ In(raw, 145, 151) \/ In(raw, 153, 154) ->
            <<"GROUND", "EXECUTE">>
      [] raw = 27 -> <<"ESC", "CLEAR">>
      [] raw \in {152, 158, 159} -> <<"ST_IGNORE", "NONE">>
      [] raw = 144 -> <<"DCS_ENTRY", "CLEAR">>
      [] raw = 157 -> <<"OSC_STRING", "CLEAR">>
      [] raw = 155 -> <<"CSI_ENTRY", "CLEAR">>
      [] OTHER -> <<>>

\* devcon_parser_feed(): [parser, ret, seq_out]; seq_out tells whether
\* *seq_out points to parser->seq (TRUE) or is NULL
devcon_parser_feed(self, raw) ==
    LET g == GlobalEdge(raw)
        r == IF g # <<>> THEN parser_transition(self, raw, g[1], g[2])
             ELSE parser_feed_to_state(self, raw)
    IN  [parser |-> r.parser, ret |-> r.ret, seq_out |-> r.ret # "NONE"]

RECURSIVE FeedAll(_, _)
\* the parser after feeding the values of @s in order
FeedAll(self, s) ==
    IF s = <<>> THEN self
    ELSE FeedAll(devcon_parser_feed(self, Head(s)).parser, Tail(s))

NoScenario == [start |-> 0, k |-> 0, a |-> <<>>, b |-> <<>>, final |-> 0]

InitParserIdle ==
    /\ parser = devcon_parser_new
    /\ pret = [ret |-> "NONE", seq_out |-> FALSE]
    /\ input = <<>>
    /\ pos = 0
    /\ scn = NoScenario

(***************************************************************************)
(* The UTF-8 decoder                                                       *)
(***************************************************************************)
\* struct devcon_utf8, all zero; chars[i] is chars[i + 1] here
Utf8Zero ==
    [chars |-> <<0, 0, 0, 0, 0>>, ucs4 |-> 0, i_bytes |-> 0, n_bytes |-> 0,
     valid |-> 0]

\* t << (6 * k)
Shift6(t, k) == t * 64 ^ k

\* the payload bits of a first byte, the length it announces and whether it
\* starts a multi-byte sequence
Utf8Start(byte) ==
    IF In(byte, 192, 223) THEN [t |-> byte % 32, n |-> 2, valid |-> 1]
    ELSE IF In(byte, 224, 239) THEN [t |-> byte % 16, n |-> 3, valid |-> 1]
    ELSE IF In(byte, 240, 247) THEN [t |-> byte % 8, n |-> 4, valid |-> 1]
    ELSE [t |-> byte, n |-> 1, valid |-> 0]

\* a fresh sequence starts with @byte
Utf8Begin(p, byte) ==
    LET s == Utf8Start(byte) IN
    [p EXCEPT !.chars[1] = byte, !.n_bytes = s.n, !.i_bytes = 1,
              !.valid = s.valid, !.ucs4 = Shift6(s.t, s.n - 1)]

\* a valid continuation byte
Utf8Continue(p, byte) ==
    [p EXCEPT !.chars[p.i_bytes + 1] = byte, !.i_bytes = p.i_bytes + 1,
              !.ucs4 = p.ucs4 + Shift6(byte % 64, p.n_bytes - (p.i_bytes + 1))]

\* the tail of devcon_utf8_decode(): return a complete sequence, valid or
\* not, and reset; [p, out]
Utf8Finish(p) ==
    LET reset == [p EXCEPT !.valid = 0, !.i_bytes = 0, !.n_bytes = 0] IN
    IF p.valid = 1
    THEN IF p.i_bytes < p.n_bytes THEN [p |-> p, out |-> <<>>]
         ELSE [p |-> reset, out |-> <<p.ucs4>>]
    ELSE [p |-> reset, out |-> SubSeq(p.chars, 1, p.i_bytes)]

\* a first byte of a multi-byte sequence arrives in place of a continuation:
\* the cached bytes move up by one, are returned, and the new sequence starts
Utf8Restart(p, byte) ==
    LET moved == [k \in 1..5 |-> IF 2 <= k /\ k <= p.i_bytes + 1
                                 THEN p.chars[k - 1] ELSE p.chars[k]]
    IN  [p |-> Utf8Begin([p EXCEPT !.chars = moved], byte),
         out |-> SubSeq(moved, 2, p.i_bytes + 1)]

\* Utf8Append() that forgets the cached bytes
Utf8Append_drop(p, byte) ==
    [p EXCEPT !.chars[1] = byte, !.i_bytes = 1, !.valid = 0]

\* a single byte arrives in place of a continuation: it joins the cached
\* bytes and the sequence is invalid
Utf8Append(p, byte) ==
    [p EXCEPT !.chars[p.i_bytes + 1] = byte, !.i_bytes = p.i_bytes + 1,
              !.valid = 0]

\* devcon_utf8_decode(p, &out_buf, c) with p # NULL: [p, out], out being
\* the returned string
devcon_utf8_decode(p, byte) ==
    IF p.valid = 0 \/ p.i_bytes >= p.n_bytes
    THEN Utf8Finish(Utf8Begin(p, byte))
    ELSE IF In(byte, 128, 191) THEN Utf8Finish(Utf8Continue(p, byte))
    ELSE IF In(byte, 192, 223) \/ In(byte, 224, 239) \/ In(byte, 240, 247)
    THEN Utf8Restart(p, byte)
    ELSE Utf8Finish(Utf8Append(p, byte))

\* the bytes the decoder holds while it waits for a continuation byte
Utf8Held(p) ==
    IF p.valid = 1 /\ p.i_bytes < p.n_bytes
    THEN SubSeq(p.chars, 1, p.i_bytes) ELSE <<>>

NoDecode == [byte |-> 0, held |-> <<>>, out |-> <<>>, calls |-> 0]

(***************************************************************************)
(* The window, the terminal and the TTY after construction                 *)
(***************************************************************************)
\* the threads that reach a window: the terminal worker (raise and lower),
\* the video worker (draw), a writer on the TTY (devcon_window_tty_input)
\* and the input filter (devcon_window_input)
Threads == {"terminal", "video", "tty", "input"}
NoThread == "none"

\* devcon_window_new(): not raised, no lock held, its handlers in no list
WindowZero ==
    [raised |-> FALSE,
     lock |-> NoThread,                   \* window->lock
     devcon_video_lock |-> NoThread,
     devcon_video_dirty_lock |-> NoThread,
     devcon_input_spinlock |-> NoThread,
     devcon_video_handlers |-> FALSE,     \* holds window->video
     devcon_video_dirty_list |-> FALSE,   \* holds window->video
     devcon_input_handlers |-> FALSE,     \* holds window->input
     pc |-> [t \in Threads |-> "idle"],
     warned |-> FALSE]                    \* a WARN_ON(!window->raised) fired

DEVCON_OP_NONE == 0
DEVCON_OP_QUIT == 1
DEVCON_OP_CLOSE == 2
DEVCON_OP_HIDE == 3

\* devcon_terminal_new(): kzalloc() and an empty window list
TerminalZero ==
    [dead |-> FALSE, running |-> FALSE, shown |-> FALSE,
     active |-> 0,                        \* 0 is NULL
     windows |-> <<>>,
     raised |-> 0,                        \* the window that is raised
     operation |-> DEVCON_OP_NONE,
     work |-> FALSE,                      \* devcon_terminal_work is queued
     pc |-> "init",                       \* where devcon_terminal_destroy() is
     created |-> 0,                       \* windows created so far
     runs |-> 0]                          \* worker runs since dead was set

\* devcon_tty_new(): one reference, owned by the caller; the index is
\* allocated with a NULL entry
TtyZero ==
    [added |-> FALSE, removed |-> FALSE,
     kref |-> 1,                          \* tty->port.kref
     idr |-> FALSE,                       \* devcon_tty_idr[index] is the tty
     device |-> FALSE,                    \* the device node is registered
     owner |-> TRUE,                      \* the caller still holds its ref
     pc |-> "idle",                       \* where add or remove stands
     installing |-> 0,                    \* installs between ref and result
     installed |-> 0,                     \* tty_structs holding a ref
     destructed |-> FALSE,
     warned |-> FALSE,                    \* a WARN_ON of tty.c fired
     gets |-> 0,                          \* registration refs taken by add
     puts |-> 0,                          \* registration refs dropped
     last |-> "new"]                      \* the last call and its outcome

InitGlueIdle ==
    /\ window = WindowZero
    /\ terminal = TerminalZero
    /\ tty = TtyZero

InitUtf8Idle ==
    /\ utf8 = Utf8Zero
    /\ uout = NoDecode

(***************************************************************************)
(* SpecChar: one character, extended by devcon_char_merge()                *)
(***************************************************************************)
\* code points the first FreeLen merges draw from: NUL, 'A', U+0301, the
\* largest code point and the first invalid value
CodePoints == {0, 65, 769, DEVCON_CHAR_UCS4_MAX, DEVCON_CHAR_UCS4_MAX + 1}
\* the combining mark passed to the i-th merge after that: U+0300 + i
MarkAt(i) == 768 + i
MergeInputs(i) == IF i <= FreeLen THEN CodePoints ELSE {MarkAt(i)}

InitCharIdle ==
    /\ ch = DEVCON_CHAR_NULL
    /\ chprev = DEVCON_CHAR_NULL
    /\ fed = <<>>

InitHeap ==
    /\ cheap = [p \in CharPtrs |-> NoCharacter]
    /\ cfail = 0

InitChar ==
    /\ InitHeap
    /\ InitCharIdle
    /\ InitUtf8Idle
    /\ InitGlueIdle
    /\ InitParserIdle
    /\ InitPageIdle

\* ch = devcon_char_merge(ch, ucs4)
CharMerge ==
    /\ Len(fed) < MaxMerges
    /\ \E u \in MergeInputs(Len(fed) + 1), ok \in BOOLEAN :
          LET r == devcon_char_merge(cheap, ch, u, ok) IN
          /\ r.failed => cfail < MaxAllocFail
          /\ ch' = r.ch
          /\ cheap' = r.heap
          /\ chprev' = ch
          /\ fed' = Append(fed, u)
          /\ cfail' = IF r.failed THEN cfail + 1 ELSE cfail
    /\ UNCHANGED <<parserVars, pageVars, utf8Vars, glueVars>>

NextChar == CharMerge

SpecChar == InitChar /\ [][NextChar]_vars

ValidFed == \A i \in 1..Len(fed) : fed[i] <= DEVCON_CHAR_UCS4_MAX

\* C7: a character built from 1..64 valid code points by merge alone, with
\* no allocation failure, resolves to exactly these code points, in order,
\* followed by a terminating zero.
CharRoundTrip ==
    (cfail = 0 /\ ValidFed /\ Len(fed) >= 1 /\ Len(fed) <= climit) =>
        /\ devcon_char_resolve(cheap, ch).len = Len(fed)
        /\ devcon_char_resolve(cheap, ch).str = fed \o <<0>>

\* 64 code points were merged and resolved
CharRoundTripWitness ==
    /\ cfail = 0 /\ ValidFed /\ Len(fed) = climit
    /\ devcon_char_resolve(cheap, ch).len = climit

\* C8 as stated: 64 distinct combining marks merged onto one base code point
\* are all accepted, so that the character resolves to 65 code points.
Distinct(s) == \A i, j \in 1..Len(s) : i # j => s[i] # s[j]
CharOverflowAsStated ==
    (cfail = 0 /\ ValidFed /\ Len(fed) = climit + 1 /\ Distinct(Tail(fed))) =>
        devcon_char_resolve(cheap, ch).len = climit + 1

\* C8, amended: the soft limit of 64 counts the base code point, so 63
\* combining marks are accepted onto a base (64 code points resolve); every
\* later merge returns the character it was given and the resolved length
\* stays 64.
CharOverflow ==
    (cfail = 0 /\ ValidFed) =>
        /\ Len(fed) = climit => devcon_char_resolve(cheap, ch).len = climit
        /\ Len(fed) > climit =>
              /\ devcon_char_same(ch, chprev)
              /\ devcon_char_resolve(cheap, ch).len = climit
              /\ devcon_char_resolve(cheap, ch).str = SubSeq(fed, 1, climit) \o <<0>>

\* the merge after the 64th code point was refused
CharOverflowWitness ==
    /\ cfail = 0 /\ ValidFed /\ Len(fed) = climit + 1 /\ Distinct(Tail(fed))
    /\ devcon_char_same(ch, chprev)

\* C9: a character merged from k valid code points is packed (not
\* allocated) for k = 1, 2, 3 and allocated for every k from 4 to the limit.
CharPackBoundary ==
    (cfail = 0 /\ ValidFed /\ Len(fed) >= 1 /\ Len(fed) <= climit) =>
        (devcon_char_is_allocated(ch) <=> Len(fed) >= 4)

\* the fourth code point moved the character to the heap
CharPackBoundaryWitness ==
    /\ cfail = 0 /\ ValidFed /\ Len(fed) = 4
    /\ devcon_char_is_allocated(ch)
    /\ ~devcon_char_is_allocated(chprev)

(***************************************************************************)
(* SpecCsi: a parser in ground state is fed ESC '[', k decimal parameters  *)
(* separated by ';' and a final character                                  *)
(***************************************************************************)
\* what the parser was fed since devcon_parser_new(): nothing, a graphic
\* character, or the sequence ESC [ 7 m
Prefixes == {<<>>, <<65>>, <<27, 91, 55, 109>>}
\* the decimal parameters, as digits: 0, 1, 2, 42, 0xffff and 0x10000
ParamStrings == {<<0>>, <<1>>, <<2>>, <<4, 2>>, <<6, 5, 5, 3, 5>>, <<6, 5, 5, 3, 6>>}
\* the final characters: 'H', 'T' and 'm'
Finals == {72, 84, 109}

RECURSIVE Value(_)
\* the number a string of decimal digits denotes
Value(digits) ==
    IF digits = <<>> THEN 0
    ELSE Value(SubSeq(digits, 1, Len(digits) - 1)) * 10 + digits[Len(digits)]

\* the i-th parameter of the sequence: parameters alternate between a and b
ParamAt(s, i) == IF i % 2 = 1 THEN s.a ELSE s.b
Chars(digits) == [i \in 1..Len(digits) |-> 48 + digits[i]]

RECURSIVE CsiParams(_, _)
\* parameters i..k as characters, separated by ';'
CsiParams(s, i) ==
    IF i > s.k THEN <<>>
    ELSE Chars(ParamAt(s, i))
         \o (IF i < s.k THEN <<59>> ELSE <<>>) \o CsiParams(s, i + 1)

CsiInput(s) == <<27, 91>> \o CsiParams(s, 1) \o <<s.final>>

InitCsi ==
    /\ InitHeap
    /\ InitCharIdle
    /\ InitUtf8Idle
    /\ InitGlueIdle
    /\ parser = devcon_parser_new
    /\ pret = [ret |-> "NONE", seq_out |-> FALSE]
    /\ pos = 0
    /\ InitPageIdle
    /\ \E pre \in Prefixes, k \in 0..MaxParams, a \in ParamStrings,
          b \in ParamStrings, f \in Finals :
          /\ scn = [start |-> Len(pre), k |-> k, a |-> a, b |-> b, final |-> f]
          /\ input = pre \o CsiInput(scn)

\* devcon_parser_feed(parser, &seq, input[pos])
CsiFeed ==
    /\ pos < Len(input)
    /\ LET r == devcon_parser_feed(parser, input[pos + 1]) IN
          /\ parser' = r.parser
          /\ pret' = [ret |-> r.ret, seq_out |-> r.seq_out]
    /\ pos' = pos + 1
    /\ UNCHANGED <<input, scn, cheap, cfail, charVars, pageVars, utf8Vars, glueVars>>

NextCsi == CsiFeed

SpecCsi == InitCsi /\ [][NextCsi]_vars

CsiStarted == scn.k >= 1 /\ pos > scn.start
CsiDone == scn.k >= 1 /\ pos = Len(input)

\* C10 as stated: after ESC '[', k >= 1 decimal parameters separated by ';'
\* and a final character, the sequence has n_args = k and args equal to the
\* parameter values in order, whatever k and the values are.
CsiDispatchAsStated ==
    CsiDone =>
        /\ parser.seq.n_args = scn.k
        /\ \A i \in 1..scn.k :
              /\ i <= DEVCON_PARSER_ARG_MAX
              /\ parser.seq.args[i] = Value(ParamAt(scn, i))

\* C10, amended: the feed returns nothing for every value but the last; the
\* last returns a sequence of type csi whose n_args is min(k, 16), whose
\* args are the first n_args parameter values, each clamped to 0xffff, and
\* whose intermediates are 0; with final 'H' the command is CUP.
CsiDispatch ==
    /\ (CsiStarted /\ pos < Len(input)) =>
          (pret.ret = "NONE" /\ ~pret.seq_out)
    /\ CsiDone =>
          /\ pret.ret = "CSI" /\ pret.seq_out
          /\ parser.seq.type = "CSI"
          /\ parser.seq.terminator = scn.final
          /\ parser.seq.intermediates = {}
          /\ parser.seq.n_args = Min(scn.k, DEVCON_PARSER_ARG_MAX)
          /\ \A i \in 1..parser.seq.n_args :
                parser.seq.args[i] = Min(Value(ParamAt(scn, i)), ParamClamp)
          /\ scn.final = 72 => parser.seq.command = "CUP"

\* ESC [ 1 ; 2 H was fed and came out as CUP with the arguments 1 and 2
CsiDispatchWitness ==
    /\ CsiDone
    /\ scn.k = 2 /\ scn.a = <<1>> /\ scn.b = <<2>> /\ scn.final = 72
    /\ pret.ret = "CSI"
    /\ parser.seq.command = "CUP"
    /\ parser.seq.n_args = 2
    /\ parser.seq.args[1] = 1 /\ parser.seq.args[2] = 2

\* ESC '[', the parameters and the final character 'T' have been fed
FinalT == pos = Len(input) /\ scn.final = 84

\* C26 as stated: a CSI sequence with the final character 'T' and no
\* intermediates is XTERM_IHMT when it has exactly 5 arguments and SD with
\* every other number of arguments.
CsiFinalTAsStated ==
    FinalT =>
        parser.seq.command =
            IF parser.seq.n_args = 5 THEN "XTERM_IHMT" ELSE "SD"

\* C26: a CSI sequence with the final character 'T' and no intermediates is
\* XTERM_IHMT when it has 5 to 16 arguments and SD when it has 0 to 4.
CsiFinalT ==
    FinalT =>
        /\ pret.ret = "CSI"
        /\ parser.seq.intermediates = {}
        /\ parser.seq.n_args = Min(scn.k, DEVCON_PARSER_ARG_MAX)
        /\ parser.seq.command =
              IF parser.seq.n_args >= 5 THEN "XTERM_IHMT" ELSE "SD"

\* ESC [ 1 ; 2 ; 1 ; 2 ; 1 ; 2 T came out as XTERM_IHMT with six arguments
CsiFinalTWitness ==
    /\ FinalT
    /\ scn.start = 0
    /\ scn.a = <<1>> /\ scn.b = <<2>>
    /\ parser.seq.n_args = 6
    /\ parser.seq.command = "XTERM_IHMT"

(***************************************************************************)
(* SpecFeed: two parsers, fresh or back in ground state after earlier use, *)
(* are fed the same values; a third is fed them without the DELs that      *)
(* arrive outside ground state                                             *)
(***************************************************************************)
\* LF, CAN, SUB, ESC, ' ', '1', ':', ';', '?', 'H', '[', DEL, PAD (0x80),
\* DCS, SOS, SCI (0x9a), CSI, ST, OSC, PM, APC
FeedValues ==
    {10, 24, 26, 27, 32, 49, 58, 59, 63, 72, 91, 127, 128, 144, 152, 154,
     155, 156, 157, 158, 159}

\* a parser as devcon_parser_new() returns it, and two that came back to
\* ground state: after ESC c and after ESC [ 7 m
FreshParser == devcon_parser_new
UsedParsers ==
    {FeedAll(devcon_parser_new, <<27, 99>>),
     FeedAll(devcon_parser_new, <<27, 91, 55, 109>>)}

NoReturn == [ret |-> "NONE", seq_out |-> FALSE]

InitFeed ==
    /\ InitHeap
    /\ InitCharIdle
    /\ InitUtf8Idle
    /\ InitGlueIdle
    /\ InitPageIdle
    /\ input = <<>>
    /\ pos = 0
    /\ pret = NoReturn
    /\ \E p \in {FreshParser} \cup UsedParsers,
          m \in {FreshParser} \cup UsedParsers :
          /\ (p = FreshParser) <=> (m = FreshParser)
          /\ parser = p
          /\ scn = [prev |-> p, raw |-> 0, mirror |-> m, mret |-> NoReturn,
                    clean |-> p, cret |-> NoReturn, residue |-> p # m]

InControl(self) == self.state \notin {"NONE", "GROUND"}

\* devcon_parser_feed(parser, &seq, raw) on the parser and on its mirror;
\* the third parser is not fed a DEL that arrives outside ground state
FeedValue ==
    /\ pos < MaxFeed
    /\ \E raw \in FeedValues :
       \E r \in {devcon_parser_feed(parser, raw)},
          m \in {devcon_parser_feed(scn.mirror, raw)},
          c \in {IF raw = 127 /\ InControl(parser)
                 THEN [parser |-> scn.clean, ret |-> scn.cret.ret,
                       seq_out |-> scn.cret.seq_out]
                 ELSE devcon_parser_feed(scn.clean, raw)} :
          /\ parser' = r.parser
          /\ pret' = [ret |-> r.ret, seq_out |-> r.seq_out]
          /\ scn' = [prev |-> parser, raw |-> raw,
                     mirror |-> m.parser,
                     mret |-> [ret |-> m.ret, seq_out |-> m.seq_out],
                     clean |-> c.parser,
                     cret |-> [ret |-> c.ret, seq_out |-> c.seq_out],
                     residue |-> scn.residue]
    /\ pos' = pos + 1
    /\ UNCHANGED <<input, cheap, cfail, charVars, pageVars, utf8Vars, glueVars>>

NextFeed == FeedValue

SpecFeed == InitFeed /\ [][NextFeed]_vars

\* the target state and the action the global edges are stated to have
StatedEdge(raw) ==
    CASE raw = 24 -> <<"GROUND", "IGNORE">>
      [] raw = 26 -> <<"GROUND", "EXECUTE">>
      [] raw = 27 -> <<"ESC", "CLEAR">>
      [] raw = 144 -> <<"DCS_ENTRY", "CLEAR">>
      [] raw = 157 -> <<"OSC_STRING", "CLEAR">>
      [] raw = 155 -> <<"CSI_ENTRY", "CLEAR">>
      [] raw \in {152, 158, 159} -> <<"ST_IGNORE", "NONE">>
      [] In(raw, 128, 159) /\ raw # 156 -> <<"GROUND", "EXECUTE">>
      [] OTHER -> <<>>

GlobalFed == pos > 0 /\ StatedEdge(scn.raw) # <<>>

\* C11: whatever state the parser was in, CAN leads to ground with ignore,
\* SUB to ground with execute, ESC to esc with clear, DCS to dcs_entry with
\* clear, OSC to osc_string with clear, CSI to csi_entry with clear, SOS, PM
\* and APC to st_ignore with no action, and every other C1 code but ST to
\* ground with execute.
GlobalEdges ==
    GlobalFed =>
        LET e == StatedEdge(scn.raw)
            r == parser_transition(scn.prev, scn.raw, e[1], e[2])
        IN  /\ parser.state = e[1]
            /\ parser = r.parser
            /\ pret.ret = r.ret
            /\ e[2] = "IGNORE" => pret.ret = "IGNORE"
            /\ e[2] = "EXECUTE" =>
                  (pret.ret = "CONTROL" /\ parser.seq.terminator = scn.raw)
            /\ e[2] = "CLEAR" =>
                  (pret.ret = "NONE" /\ parser.seq = parser_clear(scn.prev.seq))
            /\ e[2] = "NONE" =>
                  (pret.ret = "NONE" /\ parser.seq = scn.prev.seq)

\* CAN arrived after CSI '1' and took the parser from csi_param to ground
GlobalEdgesWitness ==
    /\ GlobalFed
    /\ scn.raw = 24
    /\ scn.prev.state = "CSI_PARAM"
    /\ scn.prev.seq.args[1] = 1
    /\ parser.state = "GROUND"
    /\ pret.ret = "IGNORE"

DelFed == pos > 0 /\ scn.raw = 127 /\ InControl(scn.prev)
\* the states in which a sequence is under construction
Collecting(self) ==
    self.state \in {"ESC", "ESC_INT", "CSI_ENTRY", "CSI_PARAM", "CSI_INT",
                    "DCS_ENTRY", "DCS_PARAM", "DCS_INT"}
\* what a sequence under construction has collected
Built(seq) == <<seq.intermediates, seq.n_args, seq.args>>
Dispatched(seq) ==
    <<seq.type, seq.command, seq.intermediates, seq.n_args, seq.args>>

\* C12: outside ground state a DEL leaves the parser state and the sequence
\* under construction as they are, so an escape or CSI sequence dispatches
\* the same type, command, intermediates, n_args and args with the DEL as
\* without it.
DelIgnored ==
    /\ DelFed =>
          /\ parser.state = scn.prev.state
          /\ Collecting(scn.prev) => Built(parser.seq) = Built(scn.prev.seq)
    /\ (pos > 0 /\ pret.ret \in {"ESCAPE", "CSI"}) =>
          /\ scn.cret.ret = pret.ret
          /\ Dispatched(parser.seq) = Dispatched(scn.clean.seq)

Contents(seq) ==
    <<seq.type, seq.command, seq.terminator, seq.intermediates, seq.charset,
      seq.n_args, seq.args>>

\* C13: two parsers, both fresh or both back in ground state, that are fed
\* the same values return the same type and the same sequence contents at
\* every step and are in the same state after every step.
Determinism ==
    pos > 0 =>
        /\ pret = scn.mret
        /\ pret.seq_out => Contents(parser.seq) = Contents(scn.mirror.seq)
        /\ parser.state = scn.mirror.state

\* two parsers that held different sequences at the start were fed CSI '1'
\* ';' 'H' and both returned CUP
DeterminismWitness ==
    /\ scn.residue
    /\ pos = MaxFeed
    /\ pret.ret = "CSI" /\ pret.seq_out
    /\ scn.mret.ret = "CSI"
    /\ parser.seq.command = "CUP"
    /\ parser.seq.n_args = 2
    /\ parser.seq.args[1] = 1


\* the action of the edge the last value took
FedAction ==
    IF GlobalEdge(scn.raw) # <<>> THEN GlobalEdge(scn.raw)[2]
    ELSE StateEdge(scn.prev.state, scn.raw)[2]

\* the type a dispatch action is stated to report
StatedType(action) ==
    CASE action = "ESC_DISPATCH" -> "ESCAPE"
      [] action = "CSI_DISPATCH" -> "CSI"
      [] action = "DCS_DISPATCH" -> "DCS"
      [] action = "OSC_DISPATCH" -> "OSC"
      [] OTHER -> "NONE"

\* C27: every dispatch action returns the sequence with its type: BEL or ST
\* after an OSC string returns a sequence of type osc, ST after a DCS
\* passthrough one of type dcs, as escape and CSI dispatch return escape
\* and csi.
DispatchTypes ==
    (pos > 0 /\ StatedType(FedAction) # "NONE") =>
        /\ pret.ret = StatedType(FedAction)
        /\ pret.seq_out
        /\ parser.seq.type = StatedType(FedAction)

(***************************************************************************)
(* SpecUtf8: a zeroed decoder is fed bytes one at a time                   *)
(***************************************************************************)
\* '(', 'A', the continuation bytes 0x80 and 0xa9, the first bytes 0xc3,
\* 0xe2 and 0xf0 of 2, 3 and 4 byte sequences, and 0xff
Utf8Bytes == {40, 65, 128, 169, 195, 226, 240, 255}

InitUtf8 ==
    /\ InitHeap
    /\ utf8 = Utf8Zero
    /\ uout = NoDecode
    /\ InitGlueIdle
    /\ InitCharIdle
    /\ InitParserIdle
    /\ InitPageIdle

\* devcon_utf8_decode(&utf8, &out_buf, byte)
Utf8Decode ==
    /\ uout.calls < MaxBytes
    /\ \E byte \in Utf8Bytes :
       \E r \in {devcon_utf8_decode(utf8, byte)} :
          /\ utf8' = r.p
          /\ uout' = [byte |-> byte, held |-> Utf8Held(utf8), out |-> r.out,
                      calls |-> uout.calls + 1]
    /\ UNCHANGED <<cheap, cfail, charVars, parserVars, pageVars, glueVars>>

NextUtf8 == Utf8Decode

SpecUtf8 == InitUtf8 /\ [][NextUtf8]_vars

\* first bytes of 2, 3 and 4 byte sequences, continuation bytes
StatedLead(byte) == In(byte, 192, 247)
StatedContinuation(byte) == In(byte, 128, 191)
\* the last call found the decoder waiting for a continuation byte and got
\* another byte
Utf8Aborted ==
    uout.calls > 0 /\ uout.held # <<>> /\ ~StatedContinuation(uout.byte)

\* C14: a byte that is no continuation byte, arriving while one is expected,
\* makes the call return the held bytes in order as code points; a first
\* byte of a 2, 3 or 4 byte sequence is then held as the start of a new
\* sequence and not returned, any other byte is returned after the held
\* bytes; a first byte arriving while nothing is held returns nothing; no
\* call returns more than 4 code points.
Utf8Fallback ==
    /\ Utf8Aborted =>
          IF StatedLead(uout.byte)
          THEN /\ uout.out = uout.held
               /\ Utf8Held(utf8) = <<uout.byte>>
          ELSE /\ uout.out = uout.held \o <<uout.byte>>
               /\ Utf8Held(utf8) = <<>>
    /\ (uout.calls > 0 /\ uout.held = <<>> /\ StatedLead(uout.byte)) =>
          (uout.out = <<>> /\ Utf8Held(utf8) = <<uout.byte>>)
    /\ Len(uout.out) <= 4

\* 0xc3 was held and '(' arrived: the call returned 0xc3, '('
Utf8FallbackWitness ==
    /\ Utf8Aborted
    /\ uout.held = <<195>>
    /\ uout.byte = 40
    /\ uout.out = <<195, 40>>

(***************************************************************************)
(* SpecLine: one line, made by devcon_line_new(), under the line           *)
(* operations                                                              *)
(***************************************************************************)
\* positions and counts passed to the operations, some beyond the line
LinePos == 0..MaxLineCols
LineNums == 0..(MaxLineCols + 1)
\* attribute arguments: NULL and an attribute with protect set
LineAttrs == {<<>>, <<[protect |-> 1, bold |-> 0]>>}
\* characters written, with their cwidth: 'A' and the wide U+4E00
LineChars == {<<devcon_char_pack1(65), 1>>, <<devcon_char_pack1(19968), 2>>}
\* the age passed to the operations
Ages == {1}
\* the line of SpecLine
TheLine == lheap[1]

InitLine ==
    /\ InitHeap
    /\ InitCharIdle
    /\ InitUtf8Idle
    /\ InitGlueIdle
    /\ InitParserIdle
    /\ lheap = [p \in LinePtrs |-> IF p = 1 THEN LineZero ELSE NoLine]
    /\ page = PageZero
    /\ hist = HistoryEmpty(0)
    /\ last = NoOp
    /\ snap = <<>>

\* the line and the heap become those of the result r of operation op
LineDone(r) ==
    /\ lheap' = [lheap EXCEPT ![1] = r.line]
    /\ cheap' = r.heap
    /\ UNCHANGED <<cfail, charVars, parserVars, page, hist, last, snap,
                   utf8Vars, glueVars>>

LineReserve ==
    \E width \in LinePos, attr \in LineAttrs, age \in Ages,
       protect_width \in LinePos, ok \in BOOLEAN :
        LET r == devcon_line_reserve(cheap, TheLine, width, attr, age,
                                     protect_width, ok)
        IN  LineDone(r)

LineSetWidth ==
    \E width \in LineNums :
        LineDone([line |-> devcon_line_set_width(TheLine, width),
                  heap |-> cheap])

LinePlace ==
    \E from \in LinePos, num \in LineNums, c \in LineChars, attr \in LineAttrs,
       age \in Ages :
        LineDone(devcon_line_place(cheap, TheLine, from, num, c[1], c[2],
                                   attr, age))

LineWrite ==
    \E pos_x \in LinePos, c \in LineChars, attr \in LineAttrs, age \in Ages,
       insert_mode \in BOOLEAN :
        LineDone(devcon_line_write(cheap, TheLine, pos_x, c[1], c[2], attr,
                                   age, insert_mode))

LineInsert ==
    \E from \in LinePos, num \in LineNums, attr \in LineAttrs, age \in Ages :
        LineDone(devcon_line_insert(cheap, TheLine, from, num, attr, age))

LineDelete ==
    \E from \in LinePos, num \in LineNums, attr \in LineAttrs, age \in Ages :
        LineDone(devcon_line_delete(cheap, TheLine, from, num, attr, age))

LineAppend ==
    \E pos_x \in LinePos, age \in Ages, ok \in BOOLEAN :
        /\ pos_x < TheLine.width =>
              devcon_char_resolve(cheap, TheLine.cells[pos_x + 1].ch).len
                  < MaxCellLen
        /\ LET r == devcon_line_append(cheap, TheLine, pos_x, 769, age, ok)
           IN  LineDone(r)

LineErase ==
    \E from \in LinePos, num \in LineNums, attr \in LineAttrs, age \in Ages,
       keep_protected \in BOOLEAN :
        LineDone(devcon_line_erase(cheap, TheLine, from, num, attr, age,
                                   keep_protected))

LineReset ==
    \E attr \in LineAttrs, age \in Ages :
        LineDone(devcon_line_reset(cheap, TheLine, attr, age))

NextLine ==
    \/ LineReserve
    \/ LineSetWidth
    \/ LinePlace
    \/ LineWrite
    \/ LineInsert
    \/ LineDelete
    \/ LineAppend
    \/ LineErase
    \/ LineReset

SpecLine == InitLine /\ [][NextLine]_vars

\* C2: every allocated line has 0 <= fill <= width <= n_cells, and n_cells
\* cells.
LineBounds ==
    \A p \in LinePtrs :
        lheap[p].alloc =>
            /\ 0 <= lheap[p].fill
            /\ lheap[p].fill <= lheap[p].width
            /\ lheap[p].width <= lheap[p].n_cells
            /\ Len(lheap[p].cells) = lheap[p].n_cells

\* a reserved line that is as wide as its storage and filled to the last
\* cell, which holds 'A'
LineBoundsWitness ==
    /\ TheLine.n_cells = MaxLineCols
    /\ TheLine.width = TheLine.n_cells
    /\ TheLine.fill = TheLine.width
    /\ TheLine.cells[MaxLineCols].ch = devcon_char_pack1(65)

(***************************************************************************)
(* SpecEdit: a line that holds the letters 'A', 'B', ... in its first      *)
(* cells, some of them protected, is written to or erased once             *)
(***************************************************************************)
EditCols == 1..MaxEditCols
EditPos == 0..MaxEditCols
EditNums == 0..(MaxEditCols + 1)
\* the character written: 'X' with cwidth 0, 1 or 2
EditWidths == 0..2
Protected == <<[protect |-> 1, bold |-> 0]>>

RECURSIVE EditLetters(_, _, _, _)
\* devcon_line_write() of the letter 'A' + x to every cell from x up to
\* fill - 1, with the protect attribute on the cells of prot
EditLetters(heap, line, x, c) ==
    IF x >= c.fill THEN line
    ELSE EditLetters(heap,
                     devcon_line_write(heap, line, x, devcon_char_pack1(65 + x),
                                       1, IF x \in c.prot THEN Protected
                                          ELSE <<>>, 0, FALSE).line,
                     x + 1, c)

\* a line of devcon_line_new(), reserved and set to width cells, with
\* letters in its first fill cells
EditStart(heap, c) ==
    LET r == devcon_line_reserve(heap, LineZero, c.width, <<>>, 0, 0, TRUE)
    IN  EditLetters(heap, devcon_line_set_width(r.line, c.width), 0, c)

InitEdit ==
    /\ InitHeap
    /\ InitCharIdle
    /\ InitUtf8Idle
    /\ InitGlueIdle
    /\ InitParserIdle
    /\ page = PageZero
    /\ hist = HistoryEmpty(0)
    /\ last = NoOp
    /\ snap = <<>>
    /\ \E width \in EditCols :
       \E fill \in 0..width :
       \E prot \in {{}} \cup {{x} : x \in 0..(fill - 1)} :
          lheap = [p \in LinePtrs |->
                     IF p = 1
                     THEN EditStart(cheap, [width |-> width, fill |-> fill,
                                            prot |-> prot])
                     ELSE NoLine]

\* the operation ran on the line: @l names it and its arguments
EditDone(r, l) ==
    /\ lheap' = [lheap EXCEPT ![1] = r.line]
    /\ cheap' = r.heap
    /\ last' = l
    /\ snap' = TheLine
    /\ UNCHANGED <<cfail, charVars, parserVars, page, hist, utf8Vars, glueVars>>

EditWrite ==
    /\ last = NoOp
    /\ \E pos_x \in EditPos, cwidth \in EditWidths, attr \in LineAttrs,
          insert_mode \in BOOLEAN :
          EditDone(devcon_line_write(cheap, TheLine, pos_x,
                                     devcon_char_pack1(88), cwidth, attr, 1,
                                     insert_mode),
                   [op |-> "write", args |-> <<pos_x, cwidth, insert_mode>>,
                    ret |-> 0])

EditErase ==
    /\ last = NoOp
    /\ \E from \in EditPos, num \in EditNums, attr \in LineAttrs,
          keep_protected \in BOOLEAN :
          EditDone(devcon_line_erase(cheap, TheLine, from, num, attr, 1,
                                     keep_protected),
                   [op |-> "erase", args |-> <<from, num, keep_protected>>,
                    ret |-> 0])

NextEdit ==
    \/ EditWrite
    \/ EditErase

SpecEdit == InitEdit /\ [][NextEdit]_vars

\* the first code point of every cell of a line, 0 for a null character
EditText(line) ==
    [x \in 1..line.width |->
        LET r == devcon_char_resolve(cheap, line.cells[x].ch)
        IN  IF r.len = 0 THEN 0 ELSE r.str[1]]

\* the cells of a line whose protect attribute is set
EditProtected(line) ==
    {x \in 0..(line.width - 1) : line.cells[x + 1].attr.protect = 1}

InsertWritten ==
    /\ last.op = "write"
    /\ last.args[3]
    /\ last.args[1] < snap.width

\* C15: a write in insert mode at pos_x < width moves the cells from pos_x on
\* to the right by len = min(max(1, cwidth), width - pos_x), drops the cells
\* moved beyond the right edge, stores the character in cell pos_x, leaves
\* the cells left of pos_x as they were and sets fill to min(width,
\* max(fill + len, pos_x + len)); on a line of width 4 that reads ABCD,
\* write(1, 'X') leaves A, X, B, C and fill 4.
InsertWrite ==
    InsertWritten =>
        LET pos_x == last.args[1]
            len == Min(Max(1, last.args[2]), snap.width - pos_x)
        IN  /\ TheLine.width = snap.width
            /\ \A x \in 0..(pos_x - 1) : TheLine.cells[x + 1] = snap.cells[x + 1]
            /\ EditText(TheLine)[pos_x + 1] = 88
            /\ TheLine.cells[pos_x + 1].cwidth = last.args[2]
            /\ \A x \in (pos_x + len)..(snap.width - 1) :
                  /\ TheLine.cells[x + 1].ch = snap.cells[x + 1 - len].ch
                  /\ TheLine.cells[x + 1].attr = snap.cells[x + 1 - len].attr
                  /\ TheLine.cells[x + 1].cwidth = snap.cells[x + 1 - len].cwidth
            /\ TheLine.fill =
                  Min(snap.width, Max(snap.fill + len, pos_x + len))
            /\ (EditText(snap) = <<65, 66, 67, 68>> /\ pos_x = 1
                /\ last.args[2] = 1)
                  => (EditText(TheLine) = <<65, 88, 66, 67>>
                      /\ TheLine.fill = 4)

\* ABCD became AXBC
InsertWriteWitness ==
    /\ InsertWritten
    /\ EditText(snap) = <<65, 66, 67, 68>>
    /\ last.args[1] = 1 /\ last.args[2] = 1
    /\ EditText(TheLine) = <<65, 88, 66, 67>>
    /\ TheLine.fill = 4

\* erase(0, 5, default, age, keep_protected) ran on a line of width 5 that
\* read ABCDE, with fill 5 and the cell at index 2 alone protected
ProtectedErased ==
    /\ last.op = "erase"
    /\ last.args = <<0, 5, TRUE>>
    /\ snap.width = 5 /\ snap.fill = 5
    /\ EditText(snap) = <<65, 66, 67, 68, 69>>
    /\ EditProtected(snap) = {2}

\* C16: that erase leaves blank, blank, C, blank, blank and fill 3.
EraseProtect ==
    ProtectedErased =>
        /\ EditText(TheLine) = <<0, 0, 67, 0, 0>>
        /\ TheLine.fill = 3

(***************************************************************************)
(* SpecPage: a page made by devcon_page_new() and a history, under the     *)
(* operations that allocate, move and release lines. No cell is written:   *)
(* every cell stays blank.                                                 *)
(***************************************************************************)
\* the allocations that fail in one operation: none, one, or all from one on
FailPlans ==
    {NoFail} \cup {[from |-> f, to |-> f] : f \in 1..MaxAllocTries}
             \cup {[from |-> 1, to |-> MaxAllocTries]}
PageCols == 1..MaxCols
PageRows == 0..MaxRows
\* positions and counts passed to the operations, up to the first row
\* beyond the largest page
PageNums == 0..MaxRows
\* the age passed to the operations: DEVCON_AGE_NULL
PageAges == {0}

\* the owner of the history sets max_lines after devcon_history_new()
InitPage ==
    /\ InitHeap
    /\ InitCharIdle
    /\ InitUtf8Idle
    /\ InitGlueIdle
    /\ InitParserIdle
    /\ lheap = [p \in LinePtrs |-> NoLine]
    /\ page = PageZero
    /\ \E max \in {0, MaxHist} : hist = HistoryEmpty(max)
    /\ last = NoOp
    /\ snap = <<>>

\* The address kmalloc() returns is arbitrary. States that differ in the
\* addresses of the lines alone are identified: the lines are renumbered in
\* the order in which page.lines and then the history list refer to them,
\* followed by the lines nothing refers to.
RECURSIVE FirstRefs(_, _)
FirstRefs(refs, seen) ==
    IF refs = <<>> THEN <<>>
    ELSE IF Head(refs) \in seen THEN FirstRefs(Tail(refs), seen)
    ELSE <<Head(refs)>> \o FirstRefs(Tail(refs), seen \cup {Head(refs)})

Renumbered(w) ==
    LET refs == w.page.lines \o w.hist.lines
        used == {refs[i] : i \in 1..Len(refs)}
        all == [q \in LinePtrs |-> q]
    IN  Bind(FirstRefs(refs, {})
                \o SelectSeq(all, LAMBDA q : q \notin used /\ w.lines[q].alloc)
                \o SelectSeq(all, LAMBDA q : q \notin used /\ ~w.lines[q].alloc),
             LAMBDA order :
                LET rank(q) == CHOOSE r \in LinePtrs : order[r] = q IN
                [w EXCEPT
                    !.lines = [r \in LinePtrs |-> w.lines[order[r]]],
                    !.page.lines = [i \in 1..Len(w.page.lines) |->
                                       rank(w.page.lines[i])],
                    !.hist.lines = [i \in 1..Len(w.hist.lines) |->
                                       rank(w.hist.lines[i])]])

\* the heaps, the page and the history become those of w
PageDone(w0, l) ==
    \E w \in {Renumbered(w0)} :
        /\ cheap' = w.chars
        /\ lheap' = w.lines
        /\ page' = w.page
        /\ hist' = w.hist
        /\ last' = l
        /\ UNCHANGED <<cfail, charVars, parserVars, snap, utf8Vars, glueVars>>

PageReserve ==
    \E cols \in PageCols, rows \in PageRows, age \in PageAges, fail \in FailPlans :
        \E w \in {devcon_page_reserve(World(fail), cols, rows, <<>>, age)} :
            PageDone(w, NoOp)

\* devcon_page_resize(), called when the devcon_page_reserve() of the same
\* size that it requires has returned 0
PageResize ==
    \E cols \in PageCols, rows \in PageRows, age \in PageAges :
        \E r \in {devcon_page_reserve(World(NoFail), cols, rows, <<>>, age)} :
            /\ r.ret = 0
            /\ \E history \in BOOLEAN, fail \in FailPlans :
                  \E w \in {devcon_page_resize(
                               [r EXCEPT !.tries = 0, !.fail = fail],
                               cols, rows, <<>>, age, history)} :
                      PageDone(w, NoOp)

PageSetScrollRegion ==
    \E idx \in PageNums, num \in PageNums :
        \E w \in {devcon_page_set_scroll_region(World(NoFail), idx, num)} :
            PageDone(w, NoOp)

PageScrollUp ==
    \E num \in PageNums, age \in PageAges, history \in BOOLEAN, fail \in FailPlans :
        \E w \in {devcon_page_scroll_up(World(fail), num, <<>>, age, history)} :
            PageDone(w, NoOp)

PageScrollDown ==
    \E num \in PageNums, age \in PageAges, history \in BOOLEAN, fail \in FailPlans :
        \E w \in {devcon_page_scroll_down(World(fail), num, <<>>, age, history)} :
            PageDone(w, NoOp)

PageInsertLines ==
    \E pos_y \in PageNums, num \in PageNums, age \in PageAges :
        \E w \in {devcon_page_insert_lines(World(NoFail), pos_y, num, <<>>, age)} :
            PageDone(w, NoOp)

PageDeleteLines ==
    \E pos_y \in PageNums, num \in PageNums, age \in PageAges :
        \E w \in {devcon_page_delete_lines(World(NoFail), pos_y, num, <<>>, age)} :
            PageDone(w, NoOp)

HistoryTrim ==
    \E max \in 1..MaxHist :
        \E w \in {devcon_history_trim(World(NoFail), max)} : PageDone(w, NoOp)

HistoryClear ==
    \E w \in {devcon_history_clear(World(NoFail))} : PageDone(w, NoOp)

NextPage ==
    \/ PageReserve
    \/ PageResize
    \/ PageSetScrollRegion
    \/ PageScrollUp
    \/ PageScrollDown
    \/ PageInsertLines
    \/ PageDeleteLines
    \/ HistoryTrim
    \/ HistoryClear

SpecPage == InitPage /\ [][NextPage]_vars

\* the line pointers of page.lines[0..n_lines) and of the history list
PageLines == {page.lines[i] : i \in 1..page.n_lines}
HistLines == {hist.lines[i] : i \in 1..Len(hist.lines)}

\* C1: no line is both in page.lines and in the history list, and no line
\* is twice in page.lines.
PageOwnership ==
    /\ PageLines \cap HistLines = {}
    /\ \A i, j \in 1..page.n_lines : i # j => page.lines[i] # page.lines[j]

\* the page shows lines and the history holds as many lines as it may keep
PageOwnershipWitness ==
    /\ page.height = MaxRows
    /\ page.scroll_num >= 2
    /\ hist.n_lines = MaxHist
    /\ Len(hist.lines) = MaxHist

\* C3: scroll_idx + scroll_num <= n_lines and height <= n_lines.
PageExtents ==
    /\ page.scroll_idx + page.scroll_num <= page.n_lines
    /\ page.height <= page.n_lines
    /\ Len(page.lines) = page.n_lines

\* a page that was shrunk below its allocated lines has a scroll region
\* that ends at its last row
PageExtentsWitness ==
    /\ page.height >= 1
    /\ page.height < page.n_lines
    /\ page.scroll_idx >= 1
    /\ page.scroll_idx + page.scroll_num = page.height

\* C4: every visible line is as wide as the page.
PageVisibleWidth ==
    \A i \in 1..page.height : lheap[page.lines[i]].width = page.width

(***************************************************************************)
(* SpecScroll: a page with a letter in the first column of every row and a *)
(* history is scrolled up once; then it is scrolled down by the same       *)
(* number of lines, or lines are popped from the history.                  *)
(***************************************************************************)
ScrollCols == {1, MaxScrollCols}
ScrollRows == 1..MaxScrollRows
ScrollNums == 0..MaxScrollRows
\* the number of lines the history holds before the page is written
ScrollOld == 0..1

EmptyWorld(max) ==
    [chars |-> [p \in CharPtrs |-> NoCharacter],
     lines |-> [p \in LinePtrs |-> NoLine],
     page |-> PageZero, hist |-> HistoryEmpty(max),
     tries |-> 0, fail |-> NoFail, failed |-> FALSE, ret |-> 0, born |-> {}]

RECURSIVE WriteRows(_, _, _)
\* devcon_page_write() of the letter base + y to column 0 of each row from
\* row y on
WriteRows(w, y, base) ==
    IF y >= w.page.height THEN w
    ELSE Bind(devcon_page_write(w, 0, y, devcon_char_pack1(base + y), 1,
                                <<>>, 0, FALSE),
              LAMBDA r : WriteRows(r, y + 1, base))

\* A page of cols x rows cells that shows 'A', 'B', ... in column 0 and has
\* the scroll region (idx, num); before, it showed 'X', 'Y', ... and was
\* scrolled up by old lines into its history, which keeps max lines.
ScrollStart(cols, rows, idx, num, old, max) ==
    Bind(EmptyWorld(max), LAMBDA e :
    Bind(devcon_page_reserve(e, cols, rows, <<>>, 0), LAMBDA a :
    Bind(devcon_page_resize(a, cols, rows, <<>>, 0, TRUE), LAMBDA b :
    Bind(WriteRows(b, 0, 88), LAMBDA x :
    Bind(devcon_page_scroll_up(x, old, <<>>, 0, TRUE), LAMBDA c :
    Bind(WriteRows(c, 0, 65), LAMBDA d :
        devcon_page_set_scroll_region(d, idx, num)))))))

\* the characters and attributes of the cells of a line
LineText(heap, line) ==
    [x \in 1..line.width |->
        [ch |-> LET r == devcon_char_resolve(heap, line.cells[x].ch)
                IN  SubSeq(r.str, 1, r.len),
         attr |-> line.cells[x].attr]]

\* the characters and attributes of the visible lines
Visible ==
    [y \in 1..page.height |-> LineText(cheap, lheap[page.lines[y]])]

\* a line of @width cells without characters
BlankText(width) == [x \in 1..width |-> [ch |-> <<>>, attr |-> AttrZero]]

InitScroll ==
    /\ InitCharIdle
    /\ InitUtf8Idle
    /\ InitGlueIdle
    /\ InitParserIdle
    /\ cfail = 0
    /\ \E cols \in ScrollCols, rows \in ScrollRows, idx \in ScrollNums,
          num \in ScrollNums, old \in ScrollOld, max \in 0..MaxScrollHist :
          \E w \in {ScrollStart(cols, rows, idx, num, old, max)} :
              /\ cheap = w.chars
              /\ lheap = w.lines
              /\ page = w.page
              /\ hist = w.hist
    /\ last = NoOp
    /\ snap = <<>>

ScrollDone(w, l, s) ==
    /\ cheap' = w.chars
    /\ lheap' = w.lines
    /\ page' = w.page
    /\ hist' = w.hist
    /\ last' = l
    /\ snap' = s
    /\ UNCHANGED <<cfail, charVars, parserVars, utf8Vars, glueVars>>

\* devcon_page_scroll_up(page, num, NULL, 0, history); history tells whether
\* the history is passed, or NULL
ScrollUp ==
    /\ last.op = "none"
    /\ \E num \in ScrollNums, history \in BOOLEAN, fail \in FailPlans :
          \E w \in {devcon_page_scroll_up(World(fail), num, <<>>, 0, history)} :
              ScrollDone(w, [op |-> "up", args |-> <<num, history>>, ret |-> 0],
                         [before |-> Visible, held |-> hist.n_lines,
                          failed |-> w.failed, start |-> 0, popped |-> <<>>])

\* devcon_page_scroll_down() with the arguments of the scroll_up before;
\* snap.start is the number of lines the history passed holds at the start
ScrollDown ==
    /\ last.op = "up"
    /\ \E fail \in FailPlans :
          \E w \in {devcon_page_scroll_down(World(fail), last.args[1], <<>>, 0,
                                            last.args[2])} :
              ScrollDone(w, [last EXCEPT !.op = "down"],
                         [snap EXCEPT !.start = IF last.args[2]
                                                THEN hist.n_lines ELSE 0])

\* devcon_history_pop(history, page->width, NULL, 0); the caller notes what
\* the line holds and releases it
ScrollPop ==
    /\ last.op \in {"up", "pop"}
    /\ last.args[2]
    /\ Len(snap.popped) < last.args[1]
    /\ \E fail \in FailPlans :
          \E w \in {devcon_history_pop(World(fail), page.width, <<>>, 0)} :
              IF w.ret = 0 THEN ScrollDone(w, [last EXCEPT !.op = "pop"], snap)
              ELSE \E f \in {LineFreeIn(w, w.ret)} :
                      ScrollDone(f, [last EXCEPT !.op = "pop"],
                                 [snap EXCEPT !.popped =
                                     Append(@, LineText(w.chars,
                                                        w.lines[w.ret]))])

NextScroll ==
    \/ ScrollUp
    \/ ScrollDown
    \/ ScrollPop

SpecScroll == InitScroll /\ [][NextScroll]_vars

\* the letter in column 0 of a line, or 0
FirstLetter(text) == IF text[1].ch = <<>> THEN 0 ELSE text[1].ch[1]

HandOffCase ==
    /\ last.op \in {"up", "pop"}
    /\ last.args[2]
    /\ last.args[1] <= page.scroll_num
    /\ snap.held + last.args[1] <= hist.max_lines
    /\ ~snap.failed

\* C6: scroll_up(n, history) with n <= scroll_num, a history with free
\* capacity and no allocation failure moves the top n lines of the scroll
\* region to the end of the history in top-to-bottom order (n_lines grows by
\* n), moves the remaining region lines up by n and leaves the bottom n
\* region lines blank; pops then return the handed-off lines bottom-most
\* first.
ScrollHandOff ==
    HandOffCase =>
        LET n == last.args[1]
            idx == page.scroll_idx
            num == page.scroll_num
        IN  /\ \A i \in 1..(num - n) : Visible[idx + i] = snap.before[idx + i + n]
            /\ \A i \in (num - n + 1)..num :
                  Visible[idx + i] = BlankText(page.width)
            /\ \A y \in 1..page.height :
                  (y <= idx \/ y > idx + num) => Visible[y] = snap.before[y]
            /\ last.op = "up" =>
                  /\ hist.n_lines = snap.held + n
                  /\ Len(hist.lines) = hist.n_lines
                  /\ \A i \in 1..n :
                        LineText(cheap, lheap[hist.lines[snap.held + i]])
                            = snap.before[idx + i]
            /\ \A j \in 1..Len(snap.popped) :
                  snap.popped[j] = snap.before[idx + n - j + 1]

\* a page of 4 x 4 cells with A, B, C, D in column 0 was scrolled up by two
\* lines and two lines were popped: B, then A
ScrollHandOffWitness ==
    /\ HandOffCase
    /\ last.op = "pop"
    /\ last.args[1] = 2
    /\ page.width = 4 /\ page.height = 4
    /\ page.scroll_idx = 0 /\ page.scroll_num = 4
    /\ [y \in 1..4 |-> FirstLetter(Visible[y])] = <<67, 68, 0, 0>>
    /\ [j \in 1..Len(snap.popped) |-> FirstLetter(snap.popped[j])] = <<66, 65>>

(***************************************************************************)
(* SpecCells: a page with a letter in every cell, a scroll region and a    *)
(* history is worked on by the operations that address cells and rows,     *)
(* some of them beyond the page                                            *)
(***************************************************************************)
CellCols == 1..MaxCellCols
CellRows == 1..MaxCellRows
\* positions and counts passed to the operations, up to the first row and
\* column beyond the largest page
CellXs == 0..MaxCellCols
CellYs == 0..MaxCellRows
CellNums == 0..MaxCellCols

RECURSIVE WriteCells(_, _)
\* devcon_page_write() of a letter to every cell from cell i on, row by row:
\* cell (x, y) receives 'a' + y * width + x
WriteCells(w, i) ==
    IF i >= w.page.width * w.page.height THEN w
    ELSE Bind(devcon_page_write(w, i % w.page.width, i \div w.page.width,
                                devcon_char_pack1(97 + i), 1, <<>>, 0, FALSE),
              LAMBDA r : WriteCells(r, i + 1))

\* the page of ScrollStart() with a letter in every cell
CellsStart(cols, rows, idx, num, old) ==
    Bind(ScrollStart(cols, rows, idx, num, old, MaxScrollHist),
         LAMBDA s : WriteCells(s, 0))

InitCells ==
    /\ InitCharIdle
    /\ InitUtf8Idle
    /\ InitGlueIdle
    /\ InitParserIdle
    /\ cfail = 0
    /\ \E cols \in CellCols, rows \in CellRows, idx \in CellYs, num \in CellYs,
          old \in ScrollOld :
          \E w \in {CellsStart(cols, rows, idx, num, old)} :
              /\ cheap = w.chars
              /\ lheap = w.lines
              /\ page = w.page
              /\ hist = w.hist
    /\ last = NoOp
    /\ snap = <<>>

\* the operation op ran with the arguments args and left the world w; ret
\* is what it returned
CellsDone(w, op, args, ret) ==
    /\ last.op = "none"
    /\ cheap' = w.chars
    /\ lheap' = w.lines
    /\ page' = w.page
    /\ hist' = w.hist
    /\ last' = [op |-> op, args |-> args, ret |-> ret]
    /\ snap' = [chars |-> cheap, lines |-> lheap, page |-> page, hist |-> hist]
    /\ UNCHANGED <<cfail, charVars, parserVars, utf8Vars, glueVars>>

CellsWrite ==
    \E pos_x \in CellXs, pos_y \in CellYs, attr \in LineAttrs,
       insert_mode \in BOOLEAN :
    \E w \in {devcon_page_write(World(NoFail), pos_x, pos_y,
                                devcon_char_pack1(88), 1, attr, 1,
                                insert_mode)} :
        CellsDone(w, "write", <<pos_x, pos_y>>, 0)

CellsInsert ==
    \E from_x \in CellXs, from_y \in CellYs, num \in CellNums :
    \E w \in {devcon_page_insert_cells(World(NoFail), from_x, from_y, num,
                                       <<>>, 1)} :
        CellsDone(w, "insert_cells", <<from_x, from_y>>, 0)

CellsDelete ==
    \E from_x \in CellXs, from_y \in CellYs, num \in CellNums :
    \E w \in {devcon_page_delete_cells(World(NoFail), from_x, from_y, num,
                                       <<>>, 1)} :
        CellsDone(w, "delete_cells", <<from_x, from_y>>, 0)

CellsAppend ==
    \E pos_x \in CellXs, pos_y \in CellYs :
    \E w \in {devcon_page_append(World(NoFail), pos_x, pos_y, 769, 1)} :
        CellsDone(w, "append", <<pos_x, pos_y>>, 0)

CellsInsertLines ==
    \E pos_y \in CellYs, num \in CellYs :
    \E w \in {devcon_page_insert_lines(World(NoFail), pos_y, num, <<>>, 1)} :
        CellsDone(w, "insert_lines", <<0, pos_y>>, 0)

CellsDeleteLines ==
    \E pos_y \in CellYs, num \in CellYs :
    \E w \in {devcon_page_delete_lines(World(NoFail), pos_y, num, <<>>, 1)} :
        CellsDone(w, "delete_lines", <<0, pos_y>>, 0)

CellsGetCell ==
    \E x \in CellXs, y \in CellYs :
    \E c \in {devcon_page_get_cell(World(NoFail), x, y)} :
        CellsDone(World(NoFail), "get_cell", <<x, y>>, c)

CellsErase ==
    \E from_x \in CellXs, from_y \in CellYs, to_x \in CellXs, to_y \in CellYs,
       keep_protected \in BOOLEAN :
    \E w \in {devcon_page_erase(World(NoFail), from_x, from_y, to_x, to_y,
                                <<>>, 1, keep_protected)} :
        CellsDone(w, "erase", <<from_x, from_y, to_x, to_y>>, 0)

CellsReset ==
    \E attr \in LineAttrs :
    \E w \in {devcon_page_reset(World(NoFail), attr, 1)} :
        CellsDone(w, "reset", <<attr, 1>>, 0)

NextCells ==
    \/ CellsWrite
    \/ CellsInsert
    \/ CellsDelete
    \/ CellsAppend
    \/ CellsInsertLines
    \/ CellsDeleteLines
    \/ CellsGetCell
    \/ CellsErase
    \/ CellsReset

SpecCells == InitCells /\ [][NextCells]_vars

\* C17: after devcon_page_reset(page, attr, age) on a page of at least one
\* column and one row, every visible cell, the cell (width - 1, height - 1)
\* included, has a null character, cwidth 0, the attributes attr and the age
\* age.
PageResetErases ==
    (last.op = "reset" /\ page.width >= 1 /\ page.height >= 1) =>
        \A y \in 0..(page.height - 1), x \in 0..(page.width - 1) :
            lheap[page.lines[y + 1]].cells[x + 1]
                = [ch |-> DEVCON_CHAR_NULL, cwidth |-> 0,
                   attr |-> AttrOf(last.args[1]), age |-> last.args[2]]

\* the last operation addressed a cell or a row beyond the page
OutOfBoundsCase ==
    \/ /\ last.op \in {"write", "insert_cells", "delete_cells", "append",
                       "get_cell"}
       /\ (last.args[2] >= snap.page.height \/ last.args[1] >= snap.page.width)
    \/ /\ last.op \in {"insert_lines", "delete_lines"}
       /\ last.args[2] >= snap.page.height

\* C18: write, insert_cells, delete_cells and append with pos_y >= height
\* or pos_x >= width, and insert_lines and delete_lines with pos_y >=
\* height, leave the cells, the lines, their order, the scroll region and
\* the history as they were; get_cell returns NULL for such a position.
OutOfBounds ==
    OutOfBoundsCase =>
        /\ cheap = snap.chars
        /\ lheap = snap.lines
        /\ page = snap.page
        /\ hist = snap.hist
        /\ last.op = "get_cell" => last.ret = <<>>

\* a write in insert mode to the column right of the last one, in a row of
\* the page, on a page that shows 'a' in its first cell
OutOfBoundsWitness ==
    /\ OutOfBoundsCase
    /\ last.op = "write"
    /\ last.args[1] = page.width
    /\ last.args[2] < page.height
    /\ hist.n_lines > 0
    /\ Visible[1][1].ch = <<97>>
    /\ lheap = snap.lines

(***************************************************************************)
(* SpecHist: a history that holds lines of several widths is peeked at and *)
(* popped from while allocations fail                                      *)
(***************************************************************************)
\* the widths of the lines pushed, the widths asked for
HistWidths == 1..(MaxPopWidth - 1)
PopWidths == 1..MaxPopWidth
\* the allocations that fail in a pop, which makes one at most: none, all
PopPlans == {NoFail, [from |-> 1, to |-> MaxAllocTries]}
\* the allocations that fail in a peek, which stops at the first failure:
\* none, the second, all
PeekPlans == PopPlans \cup {[from |-> 2, to |-> 2]}

RECURSIVE HistLinesPushed(_, _)
\* devcon_history_push() of one line for each width of @widths, in order;
\* the i-th line pushed shows the letter 'A' + i - 1 in its first cell
HistLinesPushed(w, widths) ==
    IF widths = <<>> THEN w
    ELSE
        Bind(LineNew(w), LAMBDA n :
        Bind(LineReserveIn(n, n.ret, Head(widths), <<>>, 0, 0), LAMBDA r :
        Bind([r EXCEPT !.lines[n.ret] =
                          devcon_line_write(r.chars,
                                            devcon_line_set_width(@, Head(widths)),
                                            0,
                                            devcon_char_pack1(65 + r.hist.n_lines),
                                            1, <<>>, 0, FALSE).line],
             LAMBDA x :
        Bind(devcon_history_push(x, n.ret), LAMBDA h :
            HistLinesPushed(h, Tail(widths))))))

\* sequences of up to n widths
WidthSeqs(n) == UNION {[1..k -> HistWidths] : k \in 0..n}

NoCredit == [n |-> 0, width |-> 0, grew |-> FALSE]

InitHist ==
    /\ InitCharIdle
    /\ InitUtf8Idle
    /\ InitGlueIdle
    /\ InitParserIdle
    /\ cfail = 0
    /\ \E widths \in WidthSeqs(MaxHistLines) :
       \E w \in {HistLinesPushed(EmptyWorld(MaxHistLines), widths)} :
          /\ cheap = w.chars
          /\ lheap = w.lines
          /\ page = w.page
          /\ hist = w.hist
    /\ last = NoOp
    /\ snap = [chars |-> cheap, lines |-> lheap, hist |-> hist,
               failed |-> FALSE, promised |-> NoCredit, credit |-> NoCredit,
               plan |-> NoFail]

\* the operation left the world w; l names it, c is what the last peek
\* still promises, snap.promised what it promised before the operation,
\* fail the allocations that fail in a pop
HistDone(w, l, fail, c) ==
    /\ cheap' = w.chars
    /\ lheap' = w.lines
    /\ hist' = w.hist
    /\ last' = l
    /\ snap' = [chars |-> cheap, lines |-> lheap, hist |-> hist,
                failed |-> w.failed, promised |-> snap.credit, credit |-> c,
                plan |-> fail]
    /\ UNCHANGED <<cfail, charVars, parserVars, utf8Vars, glueVars, page>>

\* devcon_history_pop(history, new_width, NULL, 0); the caller takes the
\* line and frees it
HistPop ==
    \E new_width \in PopWidths, fail \in PopPlans :
    \E w \in {devcon_history_pop(World(fail), new_width, <<>>, 0)} :
    \E f \in {IF w.ret = 0 THEN w ELSE LineFreeIn(w, w.ret)} :
        HistDone(f, [op |-> "pop", args |-> <<new_width>>, ret |-> w.ret,
                     line |-> IF w.ret = 0 THEN NoLine ELSE w.lines[w.ret],
                     text |-> IF w.ret = 0 THEN <<>>
                              ELSE LineText(w.chars, w.lines[w.ret])],
                 fail,
                 IF w.ret # 0 /\ snap.credit.n > 0
                    /\ snap.credit.width = new_width
                 THEN [snap.credit EXCEPT !.n = @ - 1] ELSE NoCredit)

\* devcon_history_peek(history, max, reserve_width, NULL, 0)
HistPeek ==
    \E max \in 0..MaxHistLines, reserve_width \in PopWidths,
       fail \in PeekPlans :
    \E w \in {devcon_history_peek(World(fail), 0, max, reserve_width, <<>>, 0)} :
        HistDone(w, [op |-> "peek", args |-> <<max, reserve_width>>,
                     ret |-> w.ret, line |-> NoLine, text |-> <<>>],
                 NoFail,
                 [n |-> w.ret, width |-> reserve_width, grew |-> w.tries > 0])

NextHist ==
    \/ HistPop
    \/ HistPeek

SpecHist == InitHist /\ [][NextHist]_vars

\* the lines of the history are those the last operation found, in the same
\* order, with the widths and the visible cells they had
HistoryKept ==
    /\ hist = snap.hist
    /\ \A i \in 1..Len(hist.lines) :
          LET p == hist.lines[i] IN
          /\ lheap[p].alloc
          /\ lheap[p].width = snap.lines[p].width
          /\ LineText(cheap, lheap[p]) = LineText(snap.chars, snap.lines[p])

\* C19: when reserving the last line fails, pop returns NULL and the
\* history keeps its lines, their order, n_lines, and the last line with
\* its width and visible cells; when pop succeeds it returns the line
\* pushed last, new_width wide, and n_lines is one less.
HistoryPop ==
    last.op = "pop" =>
        /\ snap.failed => last.ret = 0
        /\ last.ret = 0 => HistoryKept
        /\ (~snap.failed /\ snap.hist.lines # <<>>) => last.ret # 0
        /\ last.ret # 0 =>
              LET n == Len(snap.hist.lines) IN
              /\ last.ret = snap.hist.lines[n]
              /\ last.line.width = last.args[1]
              /\ last.text[1].ch = <<65 + n - 1>>
              /\ hist.n_lines = snap.hist.n_lines - 1
              /\ hist.lines = SubSeq(snap.hist.lines, 1, n - 1)

\* a pop to a width beyond that of the last line failed to allocate and
\* left two lines in the history
HistoryPopWitness ==
    /\ last.op = "pop"
    /\ snap.failed
    /\ last.ret = 0
    /\ hist.n_lines = 2
    /\ lheap[hist.lines[2]].width < last.args[1]
    /\ LineText(cheap, lheap[hist.lines[2]])[1].ch = <<66>>

\* the last operation is a pop the peek before it vouches for
PeekedPop ==
    /\ last.op = "pop"
    /\ snap.promised.n > 0
    /\ snap.promised.width = last.args[1]

\* C20: peek returns k <= min(max, n_lines) and leaves the lines of the
\* history and their order as they are; the next k pops with the same width
\* return a line, whatever allocation fails.
PeekGuarantee ==
    /\ last.op = "peek" =>
          /\ last.ret <= Min(last.args[1], snap.hist.n_lines)
          /\ HistoryKept
    /\ PeekedPop => last.ret # 0

\* peek had to grow a line and vouched for two; the second pop after it
\* returned a line although every allocation would have failed
PeekGuaranteeWitness ==
    /\ PeekedPop
    /\ snap.promised.grew
    /\ snap.promised.n = 1
    /\ snap.plan = [from |-> 1, to |-> MaxAllocTries]
    /\ last.ret # 0
    /\ last.line.n_cells >= last.args[1]

(***************************************************************************)
(* SpecQueue: lines are pushed to a history with a fixed max_lines, popped *)
(* from it and peeked at, and the history is trimmed and cleared           *)
(***************************************************************************)
InitQueue ==
    /\ InitCharIdle
    /\ InitUtf8Idle
    /\ InitGlueIdle
    /\ InitParserIdle
    /\ cfail = 0
    /\ \E max \in 0..MaxQueue :
       \E w \in {EmptyWorld(max)} :
          /\ cheap = w.chars
          /\ lheap = w.lines
          /\ page = w.page
          /\ hist = w.hist
    /\ last = NoOp
    /\ snap = [chars |-> cheap, lines |-> lheap, hist |-> hist,
               failed |-> FALSE, promised |-> NoCredit, credit |-> NoCredit,
               plan |-> NoFail]

\* devcon_history_push(history, line) of a line the caller has made with
\* devcon_line_new(), reserved and written to
QueuePush ==
    \E width \in {MaxPopWidth - 1} :
    \E n \in {LineNew(World(NoFail)).ret} :
    \E w \in {HistLinesPushed(World(NoFail), <<width>>)} :
        HistDone(w, [op |-> "push", args |-> <<width>>, ret |-> n,
                     line |-> NoLine, text |-> <<>>],
                 NoFail, NoCredit)

\* devcon_history_trim(history, max)
QueueTrim ==
    \E max \in 0..MaxQueue :
    \E w \in {devcon_history_trim(World(NoFail), max)} :
        HistDone(w, [op |-> "trim", args |-> <<max>>, ret |-> 0,
                     line |-> NoLine, text |-> <<>>],
                 NoFail, NoCredit)

\* devcon_history_clear(history)
QueueClear ==
    \E w \in {devcon_history_clear(World(NoFail))} :
        HistDone(w, [op |-> "clear", args |-> <<0>>, ret |-> 0,
                     line |-> NoLine, text |-> <<>>],
                 NoFail, NoCredit)

NextQueue ==
    \/ QueuePush
    \/ HistPop
    \/ HistPeek
    \/ QueueTrim
    \/ QueueClear

SpecQueue == InitQueue /\ [][NextQueue]_vars

\* n_lines counts the lines linked, which are live lines, each linked once,
\* and does not exceed max_lines, which stays as it was
QueueCounted ==
    /\ hist.n_lines = Len(hist.lines)
    /\ hist.n_lines <= hist.max_lines
    /\ hist.max_lines = snap.hist.max_lines
    /\ \A i \in 1..Len(hist.lines) :
          /\ lheap[hist.lines[i]].alloc
          /\ \A j \in 1..Len(hist.lines) :
                hist.lines[i] = hist.lines[j] => i = j

\* the lines the last operation freed: last.ret is the line a push was
\* given, which the caller made after the operation before
QueueFreed ==
    {p \in LinePtrs :
        /\ snap.lines[p].alloc \/ (last.op = "push" /\ p = last.ret)
        /\ ~lheap[p].alloc}

\* the lines of the history that were in it before are as they were
QueueKept ==
    \A i \in 1..Len(hist.lines) :
        snap.lines[hist.lines[i]].alloc =>
            lheap[hist.lines[i]] = snap.lines[hist.lines[i]]

\* the last operation pushed a line to a history that held max_lines lines
PushAtLimit ==
    /\ last.op = "push"
    /\ snap.hist.n_lines = snap.hist.max_lines

\* the last operation pushed a line to a history with room for it: the
\* line is linked at the tail and none is freed
PushBelowLimit ==
    (last.op = "push" /\ snap.hist.n_lines < snap.hist.max_lines) =>
        /\ hist.lines = Append(snap.hist.lines, last.ret)
        /\ QueueFreed = {}
        /\ QueueKept

\* trim(max) and clear() free lines from the head until n_lines <= max
TrimFromHead ==
    last.op \in {"trim", "clear"} =>
        LET n == Len(snap.hist.lines)
            k == Len(hist.lines)
        IN  /\ k = Min(n, last.args[1])
            /\ hist.lines = SubSeq(snap.hist.lines, n - k + 1, n)
            /\ QueueFreed = {snap.hist.lines[i] : i \in 1..(n - k)}
            /\ QueueKept

\* the push at the limit freed the line that was first and linked the
\* pushed line after the others
OldestDropped ==
    LET n == Len(snap.hist.lines) IN
    /\ hist.lines = Append(SubSeq(snap.hist.lines, 2, n), last.ret)
    /\ QueueFreed = {snap.hist.lines[i] : i \in {1} \cap (1..n)}
    /\ QueueKept

\* C21 as stated: every push onto a history that holds max_lines lines
\* frees the first line and leaves the pushed line at the tail.
BoundedHistoryAsStated ==
    /\ QueueCounted
    /\ PushBelowLimit
    /\ TrimFromHead
    /\ PushAtLimit => OldestDropped

\* C21: with a fixed max_lines, n_lines is the number of lines linked and
\* at most max_lines after every push, pop, peek, trim and clear; a push
\* onto a history that holds max_lines >= 1 lines frees the first line and
\* keeps the others in order with the pushed line at the tail, and a push
\* onto a history with max_lines = 0 frees the pushed line; trim(max)
\* removes lines from the head only, until n_lines <= max.
BoundedHistory ==
    /\ QueueCounted
    /\ PushBelowLimit
    /\ TrimFromHead
    /\ (PushAtLimit /\ hist.max_lines >= 1) => OldestDropped
    /\ (PushAtLimit /\ hist.max_lines = 0) =>
          /\ hist.lines = <<>>
          /\ QueueFreed = {last.ret}

\* a third line was pushed to a history that keeps two: the first is freed,
\* the second is now first and the pushed line is last
BoundedHistoryWitness ==
    /\ PushAtLimit
    /\ hist.max_lines = 2
    /\ hist.lines = <<snap.hist.lines[2], last.ret>>
    /\ ~lheap[snap.hist.lines[1]].alloc
    /\ LineText(cheap, lheap[last.ret])[1].ch = <<67>>

(***************************************************************************)
(* SpecMerge: a character of 0 to 64 code points is merged into and        *)
(* duplicated while allocations fail; the caller frees the duplicate       *)
(***************************************************************************)
\* the number of code points the character starts with
MergeLens == {0, 1, 2, 3, 4, climit - 1, climit}
\* 'A' followed by the combining marks U+0302, U+0303, ...
MergeText(n) == [i \in 1..n |-> IF i = 1 THEN 65 ELSE MarkAt(i)]

RECURSIVE MergeAll(_, _, _)
\* c = devcon_char_merge(c, u) for every u of str, in order
MergeAll(heap, c, str) ==
    IF str = <<>> THEN [ch |-> c, heap |-> heap, failed |-> FALSE]
    ELSE Bind(devcon_char_merge(heap, c, Head(str), TRUE),
              LAMBDA r : MergeAll(r.heap, r.ch, Tail(str)))

\* the character merge builds from the n code points MergeText(n): packed up
\* to three code points, and beyond that boxed at the address p with the
\* zero devcon_char_alloc() puts after the code points
MergeStart(n, p) ==
    IF n <= 3
    THEN MergeAll([q \in CharPtrs |-> NoCharacter], DEVCON_CHAR_NULL,
                  MergeText(n))
    ELSE [ch |-> devcon_char_from_ptr(p),
          heap |-> [q \in CharPtrs |->
                       IF q = p
                       THEN [n |-> n, codepoints |-> Append(MergeText(n), 0)]
                       ELSE NoCharacter],
          failed |-> FALSE]

NoMerge == [op |-> "none", args |-> <<>>, failed |-> FALSE, step |-> 0]

\* ch is the character, chprev the duplicate the caller holds
InitMerge ==
    /\ InitUtf8Idle
    /\ InitGlueIdle
    /\ InitParserIdle
    /\ cfail = 0
    /\ \E n \in MergeLens, p \in CharPtrs :
       \E r \in {MergeStart(n, p)} :
          /\ ch = r.ch
          /\ cheap = r.heap
          /\ fed = MergeText(n)
    /\ chprev = DEVCON_CHAR_NULL
    /\ lheap = [p \in LinePtrs |-> NoLine]
    /\ page = PageZero
    /\ hist = HistoryEmpty(0)
    /\ last = NoMerge
    /\ snap = [ch |-> ch, copy |-> chprev, heap |-> cheap]

MergeDone(l) ==
    /\ last' = [l EXCEPT !.step = last.step + 1]
    /\ snap' = [ch |-> ch, copy |-> chprev, heap |-> cheap]
    /\ UNCHANGED <<cfail, parserVars, utf8Vars, glueVars, lheap, page, hist>>

\* ch = devcon_char_merge(ch, ucs4)
MergeStep ==
    /\ last.step < MaxMergeSteps
    /\ \E u \in CodePoints, ok \in BOOLEAN :
       \E r \in {devcon_char_merge(cheap, ch, u, ok)} :
          /\ ch' = r.ch
          /\ cheap' = r.heap
          /\ fed' = IF devcon_char_same(r.ch, ch) THEN fed ELSE Append(fed, u)
          /\ UNCHANGED chprev
          /\ MergeDone([op |-> "merge", args |-> <<u>>, failed |-> r.failed,
                        step |-> 0])

\* copy = devcon_char_dup(ch), the caller holding no duplicate
MergeDup ==
    /\ last.step < MaxMergeSteps
    /\ ~devcon_char_is_allocated(chprev)
    /\ \E ok \in BOOLEAN :
       \E r \in {devcon_char_dup(cheap, ch, ok)} :
          /\ chprev' = r.ch
          /\ cheap' = r.heap
          /\ UNCHANGED <<ch, fed>>
          /\ MergeDone([op |-> "dup", args |-> <<>>, failed |-> r.failed,
                        step |-> 0])

\* copy = devcon_char_free(copy)
MergeFree ==
    /\ last.step < MaxMergeSteps
    /\ ~devcon_char_is_null(chprev)
    /\ chprev' = DEVCON_CHAR_NULL
    /\ cheap' = devcon_char_free(cheap, chprev)
    /\ UNCHANGED <<ch, fed>>
    /\ MergeDone([op |-> "free", args |-> <<>>, failed |-> FALSE, step |-> 0])

NextMerge ==
    \/ MergeStep
    \/ MergeDup
    \/ MergeFree

SpecMerge == InitMerge /\ [][NextMerge]_vars

\* the code points a character resolves to
Resolved(heap, c) ==
    LET r == devcon_char_resolve(heap, c) IN SubSeq(r.str, 1, r.len)

\* the addresses of the character heap in use
Boxed(heap) == {p \in CharPtrs : heap[p] # NoCharacter}

\* the last merge was one of the cases merge refuses: an invalid code point,
\* a character at the soft limit, a failed allocation
MergeRefused ==
    \/ last.args[1] > DEVCON_CHAR_UCS4_MAX
    \/ Len(Resolved(snap.heap, snap.ch)) >= climit
    \/ last.failed

\* C22: merge returns the character it was given, which it leaves as it is
\* and does not release, when the code point is above 0x10FFFF, when the
\* character holds the soft limit of code points or when the allocation
\* fails; in every other case the character returned resolves to the code
\* points of the one given followed by the new one, and the storage of the
\* one given is released.
MergeUnchanged ==
    last.op = "merge" =>
        /\ MergeRefused =>
              /\ devcon_char_same(ch, snap.ch)
              /\ cheap = snap.heap
              /\ Resolved(cheap, ch) = Resolved(snap.heap, snap.ch)
        /\ ~MergeRefused =>
              /\ ~devcon_char_same(ch, snap.ch)
              /\ Resolved(cheap, ch)
                    = Append(Resolved(snap.heap, snap.ch), last.args[1])
              /\ Resolved(cheap, ch) = fed
              /\ devcon_char_is_allocated(snap.ch) =>
                    cheap[devcon_char_to_ptr(snap.ch)] = NoCharacter
              /\ Boxed(cheap) =
                    ((Boxed(snap.heap) \ {devcon_char_to_ptr(snap.ch)})
                        \cup {devcon_char_to_ptr(ch)}) \ {0}
              /\ \A p \in Boxed(snap.heap) \ {devcon_char_to_ptr(snap.ch)} :
                    cheap[p] = snap.heap[p]

\* a merge into a boxed character of four code points found no memory and
\* returned the character as it was; a merge before it had been accepted
MergeUnchangedWitness ==
    /\ last.op = "merge"
    /\ last.failed
    /\ last.args[1] = 769
    /\ devcon_char_is_allocated(ch)
    /\ devcon_char_same(ch, snap.ch)
    /\ Resolved(cheap, ch) = <<65, 770, 771, 65>>

\* C23: dup returns the character itself when it is null or packed; for a
\* boxed character it returns one with storage of its own that resolves to
\* the same code points, or the packed U+FFFD when the allocation fails;
\* the character given is neither modified nor released.
DupNeverFails ==
    last.op = "dup" =>
        /\ ch = snap.ch
        /\ Resolved(cheap, ch) = Resolved(snap.heap, snap.ch)
        /\ \A p \in Boxed(snap.heap) : cheap[p] = snap.heap[p]
        /\ ~devcon_char_is_allocated(ch) =>
              /\ devcon_char_same(chprev, ch)
              /\ cheap = snap.heap
        /\ (devcon_char_is_allocated(ch) /\ ~last.failed) =>
              /\ devcon_char_is_allocated(chprev)
              /\ devcon_char_to_ptr(chprev) # devcon_char_to_ptr(ch)
              /\ devcon_char_to_ptr(chprev) \notin Boxed(snap.heap)
              /\ Resolved(cheap, chprev) = Resolved(cheap, ch)
              /\ devcon_char_resolve(cheap, chprev).str
                    = devcon_char_resolve(cheap, ch).str
        /\ (devcon_char_is_allocated(ch) /\ last.failed) =>
              /\ chprev = devcon_char_pack1(DEVCON_CHAR_UCS4_REPLACEMENT)
              /\ Resolved(cheap, chprev) = <<DEVCON_CHAR_UCS4_REPLACEMENT>>
              /\ cheap = snap.heap

\* a boxed character of 64 code points was duplicated into storage of its
\* own
DupNeverFailsWitness ==
    /\ last.op = "dup"
    /\ ~last.failed
    /\ devcon_char_is_allocated(ch)
    /\ devcon_char_is_allocated(chprev)
    /\ devcon_char_to_ptr(chprev) # devcon_char_to_ptr(ch)
    /\ Len(Resolved(cheap, chprev)) = climit

(***************************************************************************)
(* SpecReserve: a page with a letter in every cell and a history is        *)
(* reserved, resized and scrolled while allocations fail                   *)
(***************************************************************************)
\* the sizes reserved and resized to, the lines scrolled by
ResCols == {1, MaxResCols + 1}
ResRows == 0..(MaxResRows + 1)
ResNums == 0..MaxResRows
\* the allocations that fail in a reserve: none, or one of them
ResPlans == {NoFail} \cup {[from |-> f, to |-> f] : f \in 1..MaxResTries}
\* the allocations that fail in another operation: none, all
ResOtherPlans == {NoFail, [from |-> 1, to |-> MaxResTries]}
\* the allocations that fail in a scroll_up: none, all, the second or the
\* third, which are those of the reserve of the first new line and of the
\* second devcon_line_new()
ResUpPlans == ResOtherPlans \cup {[from |-> f, to |-> f] : f \in 2..3}

InitReserve ==
    /\ InitCharIdle
    /\ InitUtf8Idle
    /\ InitGlueIdle
    /\ InitParserIdle
    /\ cfail = 0
    /\ \E cols \in 1..MaxResCols, rows \in 1..MaxResRows, idx \in {0, 1} :
          \E w \in {CellsStart(cols, rows, idx, rows - idx, 1)} :
              /\ cheap = w.chars
              /\ lheap = w.lines
              /\ page = w.page
              /\ hist = w.hist
    /\ last = [op |-> "none", args |-> <<>>, ret |-> 0, born |-> {},
               step |-> 0]
    /\ snap = [chars |-> cheap, lines |-> lheap, page |-> page, hist |-> hist]

\* the operation op ran with the arguments args and left the world w
ResDone(w, op, args) ==
    /\ last.step < MaxResSteps
    /\ cheap' = w.chars
    /\ lheap' = w.lines
    /\ page' = w.page
    /\ hist' = w.hist
    /\ last' = [op |-> op, args |-> args, ret |-> w.ret, born |-> w.born,
                step |-> last.step + 1]
    /\ snap' = [chars |-> cheap, lines |-> lheap, page |-> page, hist |-> hist]
    /\ UNCHANGED <<cfail, charVars, parserVars, utf8Vars, glueVars>>

\* devcon_page_reserve(page, cols, rows, NULL, 1)
ResReserve ==
    \E cols \in ResCols, rows \in ResRows, fail \in ResPlans :
    \E w \in {devcon_page_reserve(World(fail), cols, rows, <<>>, 1)} :
        ResDone(w, "reserve", <<cols, rows>>)

\* devcon_page_resize(page, cols, rows, NULL, 1, history) after the
\* devcon_page_reserve() of the same size has returned 0
ResResize ==
    \E cols \in ResCols, rows \in ResRows, history \in BOOLEAN,
       fail \in ResOtherPlans :
    \E r \in {devcon_page_reserve(World(NoFail), cols, rows, <<>>, 1)} :
        /\ r.ret = 0
        /\ \E w \in {devcon_page_resize([r EXCEPT !.tries = 0, !.fail = fail],
                                        cols, rows, <<>>, 1, history)} :
              ResDone([w EXCEPT !.ret = 0], "resize", <<cols, rows, history>>)

\* devcon_page_scroll_up(page, num, NULL, 1, history)
ResScrollUp ==
    \E num \in ResNums, history \in BOOLEAN, fail \in ResUpPlans :
    \E w \in {devcon_page_scroll_up(World(fail), num, <<>>, 1, history)} :
        ResDone([w EXCEPT !.ret = 0], "up", <<num, history>>)

\* devcon_page_scroll_down(page, num, NULL, 1, history)
ResScrollDown ==
    \E num \in ResNums, history \in BOOLEAN, fail \in ResOtherPlans :
    \E w \in {devcon_page_scroll_down(World(fail), num, <<>>, 1, history)} :
        ResDone([w EXCEPT !.ret = 0], "down", <<num, history>>)

\* devcon_history_trim(history, max)
ResTrim ==
    \E max \in 0..1 :
    \E w \in {devcon_history_trim(World(NoFail), max)} :
        ResDone([w EXCEPT !.ret = 0], "trim", <<max>>)

NextReserve ==
    \/ ResReserve
    \/ ResResize
    \/ ResScrollUp
    \/ ResScrollDown
    \/ ResTrim

SpecReserve == InitReserve /\ [][NextReserve]_vars

\* the lines that were there before the last operation and are still there
Survivors ==
    {p \in LinePtrs : snap.lines[p].alloc /\ lheap[p].alloc /\ p \notin last.born}

\* the lines the last devcon_page_reserve() grew
Grown == {p \in Survivors : lheap[p].n_cells > snap.lines[p].n_cells}

\* C24: no page or history operation, and no devcon_page_reserve() that
\* succeeds or fails, lowers page.n_lines or the n_cells of a line.
ReserveMonotone ==
    /\ page.n_lines >= snap.page.n_lines
    /\ \A p \in Survivors : lheap[p].n_cells >= snap.lines[p].n_cells

\* a reserve that failed had grown a line and added one to the page
ReserveMonotoneWitness ==
    /\ last.op = "reserve"
    /\ last.ret < 0
    /\ page.n_lines > snap.page.n_lines
    /\ Grown # {}

\* the last operation is a devcon_page_reserve() that returned an error
ReserveFailed == last.op = "reserve" /\ last.ret < 0

\* the cells of the visible part of a page that the lines of before held
VisibleCells(heap, pg, before) ==
    [y \in 1..pg.height |->
        [x \in 1..Min(pg.width, before[pg.lines[y]].n_cells) |->
            heap[pg.lines[y]].cells[x]]]

\* C25: when devcon_page_reserve() fails, the width, the height and the
\* scroll region of the page and every visible cell are as before, every
\* entry of lines[0..n_lines) is a line of its own, the lines and cells
\* grown stay, and the reserve succeeds when it is tried again with memory
\* at hand.
ReserveFailure ==
    ReserveFailed =>
        /\ page.width = snap.page.width
        /\ page.height = snap.page.height
        /\ page.scroll_idx = snap.page.scroll_idx
        /\ page.scroll_num = snap.page.scroll_num
        /\ page.scroll_fill = snap.page.scroll_fill
        /\ VisibleCells(lheap, page, snap.lines)
              = VisibleCells(snap.lines, snap.page, snap.lines)
        /\ \A y \in 1..page.height :
              /\ LineText(cheap, lheap[page.lines[y]])
                    = LineText(snap.chars, snap.lines[snap.page.lines[y]])
              /\ lheap[page.lines[y]].width = snap.lines[snap.page.lines[y]].width
        /\ Len(page.lines) = page.n_lines
        /\ \A i \in 1..page.n_lines :
              /\ lheap[page.lines[i]].alloc
              /\ \A j \in 1..page.n_lines :
                    page.lines[i] = page.lines[j] => i = j
              /\ \A j \in 1..Len(hist.lines) : page.lines[i] # hist.lines[j]
        /\ SubSeq(page.lines, 1, snap.page.n_lines) = snap.page.lines
        /\ ReserveMonotone
        /\ hist = snap.hist
        /\ devcon_page_reserve(World(NoFail), last.args[1], last.args[2],
                               <<>>, 1).ret = 0

\* a reserve failed after it had added a line to the page
ReserveFailureWitness ==
    /\ ReserveFailed
    /\ page.n_lines = snap.page.n_lines + 1
    /\ last.args[2] = snap.page.n_lines + 2
    /\ page.height >= 1
    /\ page.scroll_num >= 1
    /\ Grown # {}

\* a cell without a character that has the attributes of NULL and the age
\* the operations of SpecReserve pass
BlankCell == devcon_cell_init(DEVCON_CHAR_NULL, 0, <<>>, 1)

\* the characters and attributes of row y of the page before the last
\* operation
TextBefore(y) == LineText(snap.chars, snap.lines[snap.page.lines[y]])

\* C28: scroll_up(num), with or without a history and whether or not
\* allocations fail, leaves the region lines n..scroll_num-1 at the top of
\* the region in order, for n = min(num, scroll_num), the bottom n region
\* lines blank with the attr and age given, and the lines outside the
\* region as they are; a line that is not replaced is reset, stays in the
\* page and is not in the history.
ScrollUpKeeps ==
    last.op = "up" =>
        LET idx == snap.page.scroll_idx
            num == snap.page.scroll_num
            n == Min(last.args[1], num)
        IN  /\ page.width = snap.page.width
            /\ page.height = snap.page.height
            /\ page.n_lines = snap.page.n_lines
            /\ page.scroll_idx = idx
            /\ page.scroll_num = num
            /\ \A i \in 1..(num - n) :
                  /\ page.lines[idx + i] = snap.page.lines[idx + i + n]
                  /\ LineText(cheap, lheap[page.lines[idx + i]])
                        = TextBefore(idx + i + n)
                  /\ lheap[page.lines[idx + i]].cells
                        = snap.lines[page.lines[idx + i]].cells
            /\ \A i \in (num - n + 1)..num :
                  LET line == lheap[page.lines[idx + i]] IN
                  /\ line.alloc
                  /\ line.width = page.width
                  /\ \A x \in 1..line.width : line.cells[x] = BlankCell
            /\ \A y \in 1..page.n_lines :
                  (y <= idx \/ y > idx + num) =>
                      /\ page.lines[y] = snap.page.lines[y]
                      /\ lheap[page.lines[y]] = snap.lines[page.lines[y]]
            /\ \A i \in 1..n :
                  LET old == snap.page.lines[idx + i]
                      new == page.lines[idx + num - n + i]
                  IN  /\ new # old => (last.args[2] /\ new \in last.born)
                      /\ new = old =>
                            \A j \in 1..Len(hist.lines) : hist.lines[j] # old
            /\ ~last.args[2] => (hist = snap.hist /\ last.born = {})

\* two lines were scrolled out with a history: the first went to the
\* history and a new line took its place, the second was reset and reused
\* since no line could be allocated
ScrollUpKeepsWitness ==
    /\ last.op = "up"
    /\ last.args = <<2, TRUE>>
    /\ snap.page.scroll_idx = 0
    /\ snap.page.scroll_num = 2
    /\ page.lines[1] \in last.born
    /\ page.lines[2] = snap.page.lines[2]
    /\ hist.lines[Len(hist.lines)] = snap.page.lines[1]
    /\ TextBefore(2)[1].ch # <<>>
    /\ lheap[page.lines[2]].cells[1] = BlankCell

\* ---------------------------------------------------------------------
\* Resizing a page that has a scroll region, a lower margin and a history
\* ---------------------------------------------------------------------

SizeCols == 1..MaxSizeCols
SizeRows == 0..(MaxSizeRows + 1)
\* the lines to insert or delete: none, one, or as many as a page has
SizeNums == {0, 1, MaxSizeRows}
\* the allocations that fail in a resize: none or all
SizePlans == {NoFail, [from |-> 1, to |-> MaxResTries]}

\* a page of up to MaxSizeRows rows that scrolled up to MaxScrollHist lines
\* that start with 'X', 'Y' into its history, holds lines that start with
\* 'A', 'B', 'C' and has the scroll region idx, num
InitResize ==
    /\ InitCharIdle
    /\ InitUtf8Idle
    /\ InitGlueIdle
    /\ InitParserIdle
    /\ cfail = 0
    /\ \E cols \in SizeCols, rows \in 1..MaxSizeRows,
          idx \in 0..(MaxSizeRows - 1), num \in 0..MaxSizeRows,
          old \in 0..MaxScrollHist :
          \E w \in {ScrollStart(cols, rows, idx, num, old, MaxScrollHist)} :
              /\ cheap = w.chars
              /\ lheap = w.lines
              /\ page = w.page
              /\ hist = w.hist
    /\ last = [op |-> "none", args |-> <<>>, ret |-> 0, born |-> {},
               step |-> 0]
    /\ snap = [chars |-> cheap, lines |-> lheap, page |-> page, hist |-> hist]

\* devcon_page_reserve(page, cols, rows, NULL, 1) that returned 0 and then
\* devcon_page_resize(page, cols, rows, NULL, 1, history); snap is the page
\* between the two calls
SizeResize ==
    /\ last.step < MaxSizeSteps
    /\ \E cols \in SizeCols, rows \in SizeRows, history \in BOOLEAN,
          fail \in SizePlans :
       \E r \in {devcon_page_reserve(World(NoFail), cols, rows, <<>>, 1)} :
          /\ r.ret = 0
          /\ \E w \in {devcon_page_resize([r EXCEPT !.tries = 0,
                                                    !.fail = fail],
                                          cols, rows, <<>>, 1, history)} :
                /\ cheap' = w.chars
                /\ lheap' = w.lines
                /\ page' = w.page
                /\ hist' = w.hist
                /\ last' = [op |-> "resize",
                            args |-> <<cols, rows, history, fail>>,
                            ret |-> 0, born |-> w.born,
                            step |-> last.step + 1]
                /\ snap' = [chars |-> r.chars, lines |-> r.lines,
                            page |-> r.page, hist |-> r.hist]
    /\ UNCHANGED <<cfail, charVars, parserVars, utf8Vars, glueVars>>

\* an operation of the page that takes no size ran and left the world w
SizeDone(w, op, args) ==
    /\ last.step < MaxSizeSteps
    /\ cheap' = w.chars
    /\ lheap' = w.lines
    /\ page' = w.page
    /\ hist' = w.hist
    /\ last' = [op |-> op, args |-> args, ret |-> 0, born |-> w.born,
                step |-> last.step + 1]
    /\ snap' = [chars |-> cheap, lines |-> lheap, page |-> page, hist |-> hist]
    /\ UNCHANGED <<cfail, charVars, parserVars, utf8Vars, glueVars>>

\* devcon_page_insert_lines(page, pos_y, num, NULL, 1)
SizeInsertLines ==
    \E pos_y \in SizeRows, num \in SizeNums :
    \E w \in {devcon_page_insert_lines(World(NoFail), pos_y, num, <<>>, 1)} :
        SizeDone(w, "insert_lines", <<pos_y, num>>)

\* devcon_page_delete_lines(page, pos_y, num, NULL, 1)
SizeDeleteLines ==
    \E pos_y \in SizeRows, num \in SizeNums :
    \E w \in {devcon_page_delete_lines(World(NoFail), pos_y, num, <<>>, 1)} :
        SizeDone(w, "delete_lines", <<pos_y, num>>)

NextResize ==
    \/ SizeResize
    \/ SizeInsertLines
    \/ SizeDeleteLines

SpecResize == InitResize /\ [][NextResize]_vars

\* the line p has the cells it had before the resize
CellsKept(p) == lheap[p].cells = snap.lines[p].cells

\* the lines of the lower margin before the resize
MarginBefore ==
    LESS_BY(snap.page.height, snap.page.scroll_idx + snap.page.scroll_num)

\* C29: when a resize reduces the height to rows and the m lines of the
\* lower margin fit below scroll_idx (m <= rows - scroll_idx), those m
\* lines are the last m visible lines in their order with their cells,
\* and the lines above scroll_idx are unchanged.
ShrinkKeepsMargin ==
    (/\ last.op = "resize"
     /\ last.args[2] < snap.page.height
     /\ snap.page.scroll_idx <= last.args[2]
     /\ MarginBefore <= last.args[2] - snap.page.scroll_idx) =>
        LET rows == last.args[2]
            idx == snap.page.scroll_idx
            num == snap.page.scroll_num
            m == MarginBefore
        IN  /\ page.height = rows
            /\ \A i \in 1..m :
                  /\ page.lines[rows - m + i] = snap.page.lines[idx + num + i]
                  /\ CellsKept(page.lines[rows - m + i])
            /\ \A y \in 1..idx :
                  /\ page.lines[y] = snap.page.lines[y]
                  /\ CellsKept(page.lines[y])

\* a page of three lines with the region 0, 1 and the margin 'B', 'C' was
\* shrunk to two lines: the margin moved up by one line over itself
ShrinkKeepsMarginWitness ==
    /\ last.op = "resize"
    /\ last.args[2] = 2
    /\ snap.page.height = 3
    /\ snap.page.scroll_idx = 0
    /\ snap.page.scroll_num = 1
    /\ page.height = 2
    /\ page.lines[1] = snap.page.lines[2]
    /\ page.lines[2] = snap.page.lines[3]
    /\ FirstLetter(LineText(cheap, lheap[page.lines[1]])) = 66
    /\ FirstLetter(LineText(cheap, lheap[page.lines[2]])) = 67

\* the line p shows, as far as it was and is visible, the characters and
\* attributes it had before the resize
TextKept(p) ==
    LET a == LineText(snap.chars, snap.lines[p])
        b == LineText(cheap, lheap[p])
        n == Min(Len(a), Len(b))
    IN  SubSeq(a, 1, n) = SubSeq(b, 1, n)

\* C30: a resize that grows the page from old_height to rows with a
\* history of k lines and without a failed allocation pops exactly
\* min(k, rows - old_height) lines; they are the top lines of the scroll
\* region in the order they had on the page, the former region lines follow
\* them, the lower margin is the last lines of the page in its order, and
\* page.n_lines is what it was.
GrowPullsHistory ==
    (/\ last.op = "resize"
     /\ last.args[2] > snap.page.height
     /\ last.args[3]
     /\ last.args[4] = NoFail) =>
        LET rows == last.args[2]
            idx == snap.page.scroll_idx
            num == snap.page.scroll_num
            m == MarginBefore
            k == Len(snap.hist.lines)
            n == Min(k, rows - snap.page.height)
        IN  /\ page.height = rows
            /\ page.n_lines = snap.page.n_lines
            /\ page.scroll_idx = idx
            /\ page.scroll_num = num + (rows - snap.page.height)
            /\ hist.lines = SubSeq(snap.hist.lines, 1, k - n)
            /\ hist.n_lines = snap.hist.n_lines - n
            /\ \A i \in 1..n :
                  /\ page.lines[idx + i] = snap.hist.lines[k - n + i]
                  /\ lheap[page.lines[idx + i]].alloc
                  /\ TextKept(page.lines[idx + i])
            /\ \A i \in 1..num :
                  /\ page.lines[idx + n + i] = snap.page.lines[idx + i]
                  /\ CellsKept(page.lines[idx + n + i])
            /\ \A i \in 1..m :
                  /\ page.lines[rows - m + i] = snap.page.lines[idx + num + i]
                  /\ CellsKept(page.lines[rows - m + i])
            /\ \A y \in 1..idx :
                  /\ page.lines[y] = snap.page.lines[y]
                  /\ CellsKept(page.lines[y])

\* a page of two lines with the region 0, 1 on 'A', the margin 'B' and the
\* history 'X', 'Y' grew to four lines: the page shows X, Y, A, B and the
\* history is empty
GrowPullsHistoryWitness ==
    /\ last.op = "resize"
    /\ last.args[2] = 4
    /\ last.args[3]
    /\ last.args[4] = NoFail
    /\ snap.page.height = 2
    /\ snap.page.scroll_idx = 0
    /\ snap.page.scroll_num = 1
    /\ Len(snap.hist.lines) = 2
    /\ hist.lines = <<>>
    /\ page.height = 4
    /\ [y \in 1..4 |-> FirstLetter(LineText(cheap, lheap[page.lines[y]]))]
          = <<88, 89, 65, 66>>

\* C31: insert_lines and delete_lines at pos_y < height leave scroll_idx
\* and scroll_num as they were, leave the lines above pos_y and the lines at
\* or beyond max(pos_y + 1, scroll_idx + scroll_num) in their place with
\* their content, leave the history alone, and keep in page.lines the line
\* objects that were there.
LinesEditFrame ==
    (/\ last.op \in {"insert_lines", "delete_lines"}
     /\ last.args[1] < snap.page.height) =>
        LET pos_y == last.args[1]
            end == Max(pos_y + 1, snap.page.scroll_idx + snap.page.scroll_num)
        IN  /\ page.scroll_idx = snap.page.scroll_idx
            /\ page.scroll_num = snap.page.scroll_num
            /\ page.width = snap.page.width
            /\ page.height = snap.page.height
            /\ page.n_lines = snap.page.n_lines
            /\ \A y \in 1..page.n_lines :
                  (y <= pos_y \/ y > end) =>
                      /\ page.lines[y] = snap.page.lines[y]
                      /\ lheap[page.lines[y]] = snap.lines[page.lines[y]]
            /\ hist = snap.hist
            /\ \A j \in 1..Len(hist.lines) :
                  lheap[hist.lines[j]] = snap.lines[hist.lines[j]]
            /\ {page.lines[y] : y \in 1..page.n_lines}
                  = {snap.page.lines[y] : y \in 1..snap.page.n_lines}
            /\ \A y \in 1..page.n_lines : lheap[page.lines[y]].alloc
            /\ last.born = {}

\* one line was deleted at row 0 above the scroll region 1, 1 of a page of
\* three lines with a history: 'B' moved to row 0, row 1 is blank and the
\* margin 'C' is where it was
LinesEditFrameWitness ==
    /\ last.op = "delete_lines"
    /\ last.args = <<0, 1>>
    /\ snap.page.height = 3
    /\ snap.page.scroll_idx = 1
    /\ snap.page.scroll_num = 1
    /\ Len(hist.lines) > 0
    /\ page.lines = <<snap.page.lines[2], snap.page.lines[1],
                      snap.page.lines[3]>>
    /\ [y \in 1..3 |-> FirstLetter(LineText(cheap, lheap[page.lines[y]]))]
          = <<66, 0, 67>>

\* C32: after the line operations reached through the page API, every cell
\* of a visible line at an index in [fill, width) is blank: it holds the
\* null character.
FillCoversContent ==
    \A x \in 1..TheLine.width :
        x > TheLine.fill => TheLine.cells[x].ch = DEVCON_CHAR_NULL

\* ---------------------------------------------------------------------
\* One line whose cells hold boxed characters
\* ---------------------------------------------------------------------

OwnPos == 0..MaxOwnCols
\* what is written: 'A', which is packed, and 'A' with three combining
\* marks, which is boxed
OwnTexts == {<<65>>, <<65, 769, 770, 771>>}

\* devcon_line_reserve(line, width, NULL, 1, line->width) and, when it
\* returned 0, devcon_line_set_width(line, width)
OwnReserve ==
    \E width \in {MaxOwnCols}, ok \in BOOLEAN :
    \E r \in {devcon_line_reserve(cheap, TheLine, width, <<>>, 1,
                                  TheLine.width, ok)} :
        LineDone([line |-> IF r.line.n_cells >= width
                           THEN devcon_line_set_width(r.line, width)
                           ELSE r.line,
                  heap |-> r.heap])

\* the caller builds the character with devcon_char_merge() and hands it to
\* devcon_line_write(line, pos_x, ch, cwidth, NULL, 1, insert_mode)
OwnWrite ==
    \E pos_x \in OwnPos, text \in OwnTexts, cwidth \in 1..2,
       insert_mode \in BOOLEAN :
        /\ pos_x < TheLine.width
        /\ Len(text) > 1 => cwidth = 1
        /\ \E b \in {MergeAll(cheap, DEVCON_CHAR_NULL, text)} :
              LineDone(devcon_line_write(b.heap, TheLine, pos_x, b.ch, cwidth,
                                         <<>>, 1, insert_mode))

\* devcon_line_insert(line, from, num, NULL, 1)
OwnInsert ==
    \E from \in OwnPos, num \in OwnPos :
        LineDone(devcon_line_insert(cheap, TheLine, from, num, <<>>, 1))

\* devcon_line_delete(line, from, num, NULL, 1)
OwnDelete ==
    \E from \in OwnPos, num \in OwnPos :
        LineDone(devcon_line_delete(cheap, TheLine, from, num, <<>>, 1))

\* devcon_line_erase(line, from, num, NULL, 1, keep_protected)
OwnErase ==
    \E from \in OwnPos, num \in OwnPos, keep_protected \in BOOLEAN :
        LineDone(devcon_line_erase(cheap, TheLine, from, num, <<>>, 1,
                                   keep_protected))

\* devcon_line_append(line, pos_x, 0x301, 1) on a cell that holds a boxed
\* character of fewer than MaxOwnLen code points
OwnAppend ==
    \E pos_x \in OwnPos, ok \in BOOLEAN :
        /\ pos_x < TheLine.width
        /\ devcon_char_is_allocated(TheLine.cells[pos_x + 1].ch)
        /\ devcon_char_resolve(cheap, TheLine.cells[pos_x + 1].ch).len
              < MaxOwnLen
        /\ \E r \in {devcon_line_append(cheap, TheLine, pos_x, 769, 1, ok)} :
              LineDone(r)

NextOwner ==
    \/ OwnReserve
    \/ OwnWrite
    \/ OwnInsert
    \/ OwnDelete
    \/ OwnErase
    \/ OwnAppend

SpecOwner == InitLine /\ [][NextOwner]_vars

\* the cells of the line that hold the boxed character at address p
OwnersOf(p) ==
    {x \in 1..TheLine.n_cells :
        /\ devcon_char_is_allocated(TheLine.cells[x].ch)
        /\ devcon_char_to_ptr(TheLine.cells[x].ch) = p}

\* C33: after every line operation each allocated character storage is
\* referred to by exactly one cell, and no cell refers to a storage that
\* was freed: nothing leaks, nothing is shared, nothing is released while
\* in use.
CharOneOwner ==
    \A p \in CharPtrs :
        IF cheap[p] = NoCharacter THEN OwnersOf(p) = {}
        ELSE Cardinality(OwnersOf(p)) = 1

\* ST (0x9c) was the last value fed
StFed == pos > 0 /\ scn.raw = 156

\* C34: ST fed to a parser in any state leaves it in ground state (a fresh
\* parser stays in its initial state, which is treated as ground), returns
\* no sequence of type control, escape or csi, and the graphic character
\* fed next is returned as a graphic sequence.
StTerminates ==
    StFed =>
        /\ parser.state = IF scn.prev.state = "NONE" THEN "NONE" ELSE "GROUND"
        /\ pret.ret \notin {"CONTROL", "ESCAPE", "CSI"}
        /\ \A raw \in {49, 72} :
              LET r == devcon_parser_feed(parser, raw) IN
              /\ r.ret = "GRAPHIC"
              /\ r.seq_out
              /\ r.parser.seq.type = "GRAPHIC"
              /\ r.parser.seq.terminator = raw
              /\ r.parser.state = parser.state

\* ST arrived after CSI 1 and ended the sequence: no CSI was dispatched
StTerminatesWitness ==
    /\ StFed
    /\ scn.prev.state = "CSI_PARAM"
    /\ scn.prev.seq.args[1] = 1
    /\ parser.state = "GROUND"
    /\ pret.ret = "IGNORE"

\* C35: after every value fed, n_args <= 16 and every args[i] is -1 or in
\* 0..0xffff; when the sequence is dispatched, a parameter whose digits
\* denote more than 0xffff is stored as 0xffff, and of more than 16
\* parameters the first 16 are stored in args[0..15] and the rest dropped.
ArgBounds ==
    /\ parser.seq.n_args <= DEVCON_PARSER_ARG_MAX
    /\ DOMAIN parser.seq.args = 1..DEVCON_PARSER_ARG_MAX
    /\ \A i \in DOMAIN parser.seq.args :
          parser.seq.args[i] = -1 \/ parser.seq.args[i] \in 0..ParamClamp
    /\ CsiDone =>
          \A i \in 1..DEVCON_PARSER_ARG_MAX :
              parser.seq.args[i] =
                  IF i > scn.k THEN -1
                  ELSE IF Value(ParamAt(scn, i)) > ParamClamp THEN ParamClamp
                  ELSE Value(ParamAt(scn, i))

\* 17 parameters were fed, the odd ones 65536: 16 are stored, the first as
\* 0xffff, the last as the 16th parameter
ArgBoundsWitness ==
    /\ CsiDone
    /\ scn.k = 17
    /\ Value(scn.a) = 65536
    /\ Value(scn.b) = 42
    /\ parser.seq.n_args = 16
    /\ parser.seq.args[1] = 65535
    /\ parser.seq.args[16] = 42

(***************************************************************************)
(* SpecWindow: one window of a shown terminal; the terminal worker raises  *)
(* and lowers it while the video worker draws, a writer feeds the TTY and  *)
(* the input filter delivers key events.  Every lock acquisition is a step *)
(* of its own; a thread whose lock is taken stays where it is.             *)
(***************************************************************************)
Locks == {"lock", "devcon_video_lock", "devcon_video_dirty_lock",
          "devcon_input_spinlock"}

At(t, l) == window.pc[t] = l
Holder(w, k) ==
    CASE k = "lock" -> w.lock
      [] k = "devcon_video_lock" -> w.devcon_video_lock
      [] k = "devcon_video_dirty_lock" -> w.devcon_video_dirty_lock
      [] k = "devcon_input_spinlock" -> w.devcon_input_spinlock
Take(w, k, t) ==
    CASE k = "lock" -> [w EXCEPT !.lock = t]
      [] k = "devcon_video_lock" -> [w EXCEPT !.devcon_video_lock = t]
      [] k = "devcon_video_dirty_lock" ->
             [w EXCEPT !.devcon_video_dirty_lock = t]
      [] k = "devcon_input_spinlock" ->
             [w EXCEPT !.devcon_input_spinlock = t]
Drop(w, k) == Take(w, k, NoThread)

\* the lock a thread standing at label l is about to take, or "none"
LockAt(l) ==
    CASE l \in {"raise_lock", "lower_lock", "draw_lock", "tty_lock"} -> "lock"
      [] l \in {"raise_video", "lower_video", "worker_lock"} ->
             "devcon_video_lock"
      [] l \in {"lower_dirty", "worker_dirty", "tty_dirty"} ->
             "devcon_video_dirty_lock"
      [] l \in {"raise_input", "lower_input", "filter_lock"} ->
             "devcon_input_spinlock"
      [] OTHER -> "none"

\* the statements of devcon_window_raise() after its check of
\* window->raised, in program order, devcon_video_open() and
\* devcon_input_open() inlined
RaiseSteps ==
    <<"raise_lock", "raise_set", "raise_video", "raise_video_add",
      "raise_input", "raise_input_add", "raise_unlock", "idle">>

\* a lower that clears window->raised before it closes the handlers
LowerSteps_clear_first ==
    <<"lower_lock", "lower_clear", "lower_input", "lower_input_del",
      "lower_video", "lower_dirty", "lower_dirty_del", "lower_video_del",
      "lower_unlock", "idle">>

\* the statements of devcon_window_lower() after its check of
\* window->raised, in program order, devcon_input_close() and
\* devcon_video_close() inlined
LowerSteps ==
    <<"lower_lock", "lower_input", "lower_input_del", "lower_video",
      "lower_dirty", "lower_dirty_del", "lower_video_del", "lower_clear",
      "lower_unlock", "idle">>

\* what the statement at label l of the terminal worker does to the window
TerminalApply(w, l) ==
    CASE LockAt(l) # "none" -> Take(w, LockAt(l), "terminal")
      [] l = "raise_set" -> [w EXCEPT !.raised = TRUE]
      [] l = "raise_video_add" ->
             Drop([w EXCEPT !.devcon_video_handlers = TRUE],
                  "devcon_video_lock")
      [] l = "raise_input_add" ->
             Drop([w EXCEPT !.devcon_input_handlers = TRUE],
                  "devcon_input_spinlock")
      [] l = "lower_input_del" ->
             Drop([w EXCEPT !.devcon_input_handlers = FALSE],
                  "devcon_input_spinlock")
      [] l = "lower_dirty_del" ->
             Drop([w EXCEPT !.devcon_video_dirty_list = FALSE],
                  "devcon_video_dirty_lock")
      [] l = "lower_video_del" ->
             Drop([w EXCEPT !.devcon_video_handlers = FALSE],
                  "devcon_video_lock")
      [] l = "lower_clear" -> [w EXCEPT !.raised = FALSE]
      [] l \in {"raise_unlock", "lower_unlock"} -> Drop(w, "lock")

WindowDone(w) ==
    /\ window' = w
    /\ UNCHANGED <<cheap, cfail, charVars, parserVars, pageVars, utf8Vars,
                   terminal, tty>>

\* thread t executes the statement at its label, which is steps[i], and
\* moves on to steps[i + 1]; a lock that is taken blocks it
StepOf(t, steps) ==
    \E i \in 1..(Len(steps) - 1) :
       /\ At(t, steps[i])
       /\ LockAt(steps[i]) # "none"
             => Holder(window, LockAt(steps[i])) = NoThread
       /\ WindowDone([TerminalApply(window, steps[i])
                         EXCEPT !.pc[t] = steps[i + 1]])

InitWindow ==
    /\ InitHeap
    /\ InitCharIdle
    /\ InitParserIdle
    /\ InitPageIdle
    /\ InitUtf8Idle
    /\ InitGlueIdle

\* devcon_terminal_show() -> devcon_window_raise(t->active)
devcon_window_raise ==
    \/ /\ At("terminal", "idle")
       /\ ~window.raised
       /\ WindowDone([window EXCEPT !.pc["terminal"] = RaiseSteps[1]])
    \/ StepOf("terminal", RaiseSteps)

\* devcon_terminal_hide() -> devcon_window_lower(t->active)
devcon_window_lower ==
    \/ /\ At("terminal", "idle")
       /\ window.raised
       /\ WindowDone([window EXCEPT !.pc["terminal"] = LowerSteps[1]])
    \/ StepOf("terminal", LowerSteps)

\* one run of devcon_video_worker(); the handler list holds the terminal's
\* handler as well, and a display may or may not need a frame
devcon_video_worker ==
    \/ /\ At("video", "idle")
       /\ WindowDone([window EXCEPT !.pc["video"] = "worker_lock"])
    \/ /\ At("video", "worker_lock")
       /\ window.devcon_video_lock = NoThread
       /\ \E empty \in BOOLEAN :
             /\ empty => ~window.devcon_video_handlers
             /\ WindowDone([window EXCEPT
                   !.devcon_video_lock = "video",
                   !.pc["video"] = IF empty THEN "worker_unlock"
                                   ELSE "worker_dirty"])
    \/ /\ At("video", "worker_dirty")
       /\ window.devcon_video_dirty_lock = NoThread
       /\ WindowDone([window EXCEPT !.devcon_video_dirty_lock = "video",
                                    !.pc["video"] = "worker_drain"])
    \/ /\ At("video", "worker_drain")
       /\ \E frame \in BOOLEAN :
             /\ window.devcon_video_dirty_list => frame
             /\ WindowDone([window EXCEPT
                   !.devcon_video_dirty_list = FALSE,
                   !.devcon_video_dirty_lock = NoThread,
                   !.pc["video"] =
                       IF frame /\ window.devcon_video_handlers
                       THEN "draw_check" ELSE "worker_unlock"])
    \/ /\ At("video", "draw_check")        \* devcon_window_draw()
       /\ WindowDone(
             IF window.raised
             THEN [window EXCEPT !.pc["video"] = "draw_lock"]
             ELSE [window EXCEPT !.warned = TRUE,
                                 !.pc["video"] = "worker_unlock"])
    \/ /\ At("video", "draw_lock")
       /\ window.lock = NoThread
       /\ WindowDone([window EXCEPT !.lock = "video",
                                    !.pc["video"] = "draw_screen"])
    \/ /\ At("video", "draw_screen")       \* devcon_screen_draw() returns
       /\ WindowDone([window EXCEPT !.lock = NoThread,
                                    !.pc["video"] = "worker_unlock"])
    \/ /\ At("video", "worker_unlock")
       /\ WindowDone([window EXCEPT !.devcon_video_lock = NoThread,
                                    !.pc["video"] = "idle"])

\* a write to the TTY reaches devcon_window_tty_input()
devcon_window_tty_input ==
    \/ /\ At("tty", "idle")
       /\ WindowDone([window EXCEPT !.pc["tty"] = "tty_lock"])
    \/ /\ At("tty", "tty_lock")
       /\ window.lock = NoThread
       /\ WindowDone([window EXCEPT !.lock = "tty",
                                    !.pc["tty"] = "tty_screen"])
    \/ /\ At("tty", "tty_screen")          \* devcon_screen_feed_text() returns
       /\ WindowDone([window EXCEPT
             !.pc["tty"] = IF window.raised THEN "tty_dirty"
                           ELSE "tty_unlock"])
    \/ /\ At("tty", "tty_dirty")           \* devcon_video_dirty()
       /\ window.devcon_video_dirty_lock = NoThread
       /\ WindowDone([window EXCEPT !.devcon_video_dirty_lock = "tty",
                                    !.pc["tty"] = "tty_dirty_add"])
    \/ /\ At("tty", "tty_dirty_add")
       /\ WindowDone([window EXCEPT !.devcon_video_dirty_list = TRUE,
                                    !.devcon_video_dirty_lock = NoThread,
                                    !.pc["tty"] = "tty_unlock"])
    \/ /\ At("tty", "tty_unlock")
       /\ WindowDone([window EXCEPT !.lock = NoThread,
                                    !.pc["tty"] = "idle"])

\* a key event reaches devcon_iops_filter(); the terminal's handler comes
\* first in devcon_input_handlers and may consume the event
devcon_iops_filter ==
    \/ /\ At("input", "idle")
       /\ WindowDone([window EXCEPT !.pc["input"] = "filter_lock"])
    \/ /\ At("input", "filter_lock")
       /\ window.devcon_input_spinlock = NoThread
       /\ \E consumed \in BOOLEAN :
             WindowDone([window EXCEPT
                !.devcon_input_spinlock = "input",
                !.pc["input"] =
                    IF window.devcon_input_handlers /\ ~consumed
                    THEN "input_check" ELSE "filter_unlock"])
    \/ /\ At("input", "input_check")       \* devcon_window_input()
       /\ WindowDone(
             IF window.raised
             THEN [window EXCEPT !.pc["input"] = "input_screen"]
             ELSE [window EXCEPT !.warned = TRUE,
                                 !.pc["input"] = "filter_unlock"])
    \/ /\ At("input", "input_screen")      \* devcon_screen_feed_keyboard()
       /\ WindowDone([window EXCEPT !.pc["input"] = "filter_unlock"])
    \/ /\ At("input", "filter_unlock")
       /\ WindowDone([window EXCEPT !.devcon_input_spinlock = NoThread,
                                    !.pc["input"] = "idle"])

NextWindow ==
    \/ devcon_window_raise
    \/ devcon_window_lower
    \/ devcon_video_worker
    \/ devcon_window_tty_input
    \/ devcon_iops_filter

SpecWindow == InitWindow /\ [][NextWindow]_vars

\* thread t stands before a lock that another thread holds
Blocked(t) ==
    /\ LockAt(window.pc[t]) # "none"
    /\ Holder(window, LockAt(window.pc[t])) # NoThread
BlockedBy(t) == Holder(window, LockAt(window.pc[t]))

\* C36: in no reachable state is there a set of threads each of which
\* waits for a lock that another thread of the set holds.
NoLockCycle ==
    ~ \E S \in SUBSET Threads :
         /\ S # {}
         /\ \A t \in S : Blocked(t) /\ BlockedBy(t) \in S

\* the threads that execute inside the window's screen
InScreen ==
    {t \in Threads :
        \/ t = "video" /\ At(t, "draw_screen")
        \/ t = "tty" /\ At(t, "tty_screen")
        \/ t = "input" /\ At(t, "input_screen")}

\* C37: at most one caller is inside the window's screen at any time, and
\* a caller inside the screen holds window->lock.
ScreenSerialized ==
    /\ Cardinality(InScreen) <= 1
    /\ \A t \in InScreen : window.lock = t

\* C38: the draw callback and the input callback are entered only while
\* window->raised is true, so neither WARN_ON(!window->raised) fires.
CallbacksWhileRaised ==
    /\ ~window.warned
    /\ At("video", "draw_check") \/ At("video", "draw_lock")
           \/ At("video", "draw_screen") => window.raised
    /\ At("input", "input_check") \/ At("input", "input_screen")
           => window.raised

\* the input callback is inside the screen while the terminal worker, in
\* devcon_window_lower(), waits for the input lock
CallbacksWhileRaisedWitness ==
    /\ At("input", "input_screen")
    /\ At("terminal", "lower_input")
    /\ window.raised

(***************************************************************************)
(* SpecTerminal: the terminal, its worker, its hot keys and its            *)
(* destruction.  A run of the worker holds t->lock from its first to its   *)
(* last statement, and so does the stop in devcon_terminal_destroy(); each *)
(* is one step.  Key events come from atomic context without the lock.     *)
(***************************************************************************)
devcon_terminal_show(t) ==
    IF t.shown \/ ~t.running \/ t.dead THEN t
    ELSE [t EXCEPT !.shown = TRUE, !.raised = t.active]

devcon_terminal_hide(t) ==
    IF ~t.shown \/ ~t.running THEN t
    ELSE [t EXCEPT !.raised = 0, !.shown = FALSE]

\* ok: devcon_window_new() succeeds
devcon_terminal_start(t, ok) ==
    IF t.dead THEN [t |-> t, ret |-> -16]
    ELSE IF t.running THEN [t |-> t, ret |-> 0]
    ELSE IF t.windows = <<>> /\ ~ok THEN [t |-> t, ret |-> -12]
    ELSE LET made == IF t.windows = <<>>
                     THEN [t EXCEPT !.created = t.created + 1,
                                    !.windows = <<t.created + 1>>]
                     ELSE t
             new == IF t.active = 0 THEN Head(made.windows) ELSE t.active
         IN  [t |-> [made EXCEPT !.running = TRUE, !.active = new],
              ret |-> 0]

\* a stop that leaves the terminal shown
devcon_terminal_stop_shown(t, kill) ==
    LET d == IF kill THEN [t EXCEPT !.dead = TRUE] ELSE t
    IN  IF ~d.running THEN d
        ELSE [d EXCEPT !.active = 0, !.windows = <<>>, !.running = FALSE]

devcon_terminal_stop(t, kill) ==
    LET d == IF kill THEN [t EXCEPT !.dead = TRUE] ELSE t
    IN  IF ~d.running THEN d
        ELSE [devcon_terminal_hide(d) EXCEPT
                 !.active = 0, !.windows = <<>>, !.running = FALSE]

\* the body of devcon_terminal_worker() between lock and unlock
WorkerBody(t, ok) ==
    IF t.dead THEN devcon_terminal_stop(t, TRUE)
    ELSE IF t.operation # DEVCON_OP_NONE
    THEN LET u == [t EXCEPT !.operation = DEVCON_OP_NONE]
         IN  CASE t.operation = DEVCON_OP_QUIT ->
                      devcon_terminal_stop(u, FALSE)
               [] t.operation = DEVCON_OP_HIDE ->
                      IF u.shown THEN devcon_terminal_hide(u)
                      ELSE devcon_terminal_show(u)
               [] OTHER -> u
    ELSE IF t.running
    THEN IF ~t.shown THEN devcon_terminal_show(t)
         ELSE devcon_terminal_stop(t, FALSE)
    ELSE LET r == devcon_terminal_start(t, ok)
         IN  IF r.ret < 0 THEN r.t ELSE devcon_terminal_show(r.t)

\* a key event that devcon_terminal_input() takes while t->input is open:
\* META+H or META+Q, or none
LateKey(t, op) ==
    IF op = DEVCON_OP_NONE THEN t
    ELSE [t EXCEPT !.operation = op, !.work = TRUE]
Keys == {DEVCON_OP_NONE, DEVCON_OP_HIDE, DEVCON_OP_QUIT}

TerminalDone(t) ==
    /\ terminal' = t
    /\ UNCHANGED <<cheap, cfail, charVars, parserVars, pageVars, utf8Vars,
                   window, tty>>

InitTerminal ==
    /\ InitHeap
    /\ InitCharIdle
    /\ InitParserIdle
    /\ InitPageIdle
    /\ InitUtf8Idle
    /\ InitGlueIdle

devcon_terminal_hotkey ==
    /\ terminal.pc # "freed"
    /\ TerminalDone([terminal EXCEPT !.work = TRUE])

\* the input filter calls the handler while it is in devcon_input_handlers,
\* that is from devcon_terminal_start() to devcon_terminal_stop()
devcon_terminal_input ==
    /\ terminal.running
    /\ \E op \in Keys \ {DEVCON_OP_NONE} :
          TerminalDone(LateKey(terminal, op))

\* one run of the queued work; a key may arrive while the run still has the
\* input handler open, after it has read t->operation
devcon_terminal_worker ==
    /\ terminal.work
    /\ terminal.pc # "freed"
    /\ terminal.dead => terminal.runs < MaxDeadRuns
    /\ \E ok \in BOOLEAN, key \in Keys :
          /\ ok => terminal.created < MaxWindows
          /\ key # DEVCON_OP_NONE => terminal.running
          /\ \E t \in {WorkerBody([terminal EXCEPT !.work = FALSE], ok)} :
                TerminalDone(LateKey(
                    [t EXCEPT !.runs = IF terminal.dead THEN @ + 1 ELSE @],
                    key))

\* devcon_terminal_destroy(): the force stop under t->lock, then
\* cancel_work_sync() and devcon_terminal_free()
devcon_terminal_destroy ==
    \/ /\ terminal.pc = "init"
       /\ \E key \in Keys :
             /\ key # DEVCON_OP_NONE => terminal.running
             /\ TerminalDone(LateKey(
                   [devcon_terminal_stop(terminal, TRUE) EXCEPT
                       !.pc = "stopped"], key))
    \/ /\ terminal.pc = "stopped"
       /\ TerminalDone([terminal EXCEPT !.pc = "freed", !.work = FALSE])

NextTerminal ==
    \/ devcon_terminal_hotkey
    \/ devcon_terminal_input
    \/ devcon_terminal_worker
    \/ devcon_terminal_destroy

SpecTerminal == InitTerminal /\ [][NextTerminal]_vars

TerminalStopped(t) ==
    ~t.running /\ ~t.shown /\ t.active = 0 /\ t.windows = <<>>

\* C39: a shown terminal is running and a terminal that is not running has
\* no active window and no window at all; a dead terminal is stopped, and
\* no step after the force stop makes it running or shown, creates a window
\* or makes it alive again.
DeadStaysStopped ==
    /\ [](/\ terminal.shown => terminal.running
          /\ ~terminal.running =>
                 terminal.active = 0 /\ terminal.windows = <<>>
          /\ terminal.dead => TerminalStopped(terminal))
    /\ [][terminal.dead =>
             /\ terminal'.dead
             /\ TerminalStopped(terminal')
             /\ terminal'.created = terminal.created]_vars

\* the worker ran on a dead terminal that had been shown with a window,
\* with a hide operation still queued
DeadStaysStoppedWitness ==
    /\ terminal.dead
    /\ terminal.runs > 0
    /\ terminal.created > 0
    /\ terminal.operation = DEVCON_OP_HIDE

(***************************************************************************)
(* SpecTty: one TTY from devcon_tty_new() on.  Its owner adds it, removes  *)
(* it and drops its reference, in any order; user-space installs and       *)
(* cleans up tty_structs on its index at any time.                         *)
(***************************************************************************)
\* devcon_pops_destruct(), called when the last reference is dropped
devcon_pops_destruct(t) ==
    [t EXCEPT !.warned = @ \/ (t.added /\ ~t.removed),
              !.idr = FALSE,
              !.destructed = TRUE]

devcon_tty_unref(t) ==
    IF t.kref = 1 THEN devcon_pops_destruct([t EXCEPT !.kref = 0])
    ELSE [t EXCEPT !.kref = @ - 1]

\* tty_port_get() takes no reference on a port whose count is zero
devcon_tty_ref(t) ==
    IF t.kref = 0 THEN [t EXCEPT !.warned = TRUE]
    ELSE [t EXCEPT !.kref = @ + 1]

\* a remove that does not look at the flags
RemoveReturns_never(t) == FALSE

\* devcon_tty_remove() returns at once
RemoveReturns(t) == t.removed \/ ~t.added

TtyDone(t) ==
    /\ tty' = t
    /\ UNCHANGED <<cheap, cfail, charVars, parserVars, pageVars, utf8Vars,
                   window, terminal>>

InitTty ==
    /\ InitHeap
    /\ InitCharIdle
    /\ InitParserIdle
    /\ InitPageIdle
    /\ InitUtf8Idle
    /\ InitGlueIdle

\* the owner calls devcon_tty_add() once, as devcon_window_new() does;
\* ok: tty_port_register_device() succeeds
devcon_tty_add ==
    \/ /\ tty.pc = "idle" /\ tty.owner
       /\ ~tty.added /\ ~tty.removed
       /\ TtyDone([tty EXCEPT !.added = TRUE, !.idr = TRUE,
                              !.pc = "add_register", !.last = "add"])
    \/ /\ tty.pc = "add_register"
       /\ \E ok \in BOOLEAN :
             TtyDone(IF ok
                     THEN [tty EXCEPT !.device = TRUE, !.pc = "add_ref",
                                      !.last = "add_registered"]
                     ELSE [tty EXCEPT !.idr = FALSE, !.pc = "add_failed",
                                      !.last = "add_unlisted"])
    \/ /\ tty.pc = "add_failed"
       /\ TtyDone([tty EXCEPT !.removed = TRUE, !.pc = "idle",
                              !.last = "add_error"])
    \/ /\ tty.pc = "add_ref"
       /\ TtyDone([devcon_tty_ref(tty) EXCEPT
                      !.gets = @ + 1, !.pc = "idle", !.last = "add_ok"])

\* devcon_tty_remove() on a TTY that still exists, by the owner or, after
\* the owner dropped its reference, on the registered TTY
devcon_tty_remove ==
    \/ /\ tty.pc = "idle" /\ ~tty.destructed
       /\ TtyDone(IF RemoveReturns(tty)
                  THEN [tty EXCEPT !.last = "remove_nothing"]
                  ELSE [tty EXCEPT !.device = FALSE, !.pc = "remove_idr",
                                   !.last = "remove"])
    \/ /\ tty.pc = "remove_idr"
       /\ TtyDone([tty EXCEPT !.idr = FALSE, !.pc = "remove_set",
                              !.last = "remove_unlisted"])
    \/ /\ tty.pc = "remove_set"
       /\ TtyDone([tty EXCEPT !.removed = TRUE, !.pc = "remove_put",
                              !.last = "remove_set"])
    \/ /\ tty.pc = "remove_put"
       /\ TtyDone([devcon_tty_unref(tty) EXCEPT
                      !.puts = @ + 1, !.pc = "idle", !.last = "removed"])

\* the owner drops the reference devcon_tty_new() gave it
TtyOwnerUnref ==
    /\ tty.pc = "idle" /\ tty.owner
    /\ TtyDone([devcon_tty_unref(tty) EXCEPT
                   !.owner = FALSE, !.last = "unref"])

\* user-space opens the device number of the TTY: idr_find() and the
\* check under devcon_tty_lock, then tty_standard_install()
devcon_tops_install ==
    \/ /\ tty.installing + tty.installed < MaxUsers
       /\ TtyDone(
             IF ~tty.idr THEN [tty EXCEPT !.last = "install_nodev"]
             ELSE IF ~tty.added \/ tty.removed
             THEN [tty EXCEPT !.warned = TRUE, !.last = "install_nodev"]
             ELSE [devcon_tty_ref(tty) EXCEPT
                      !.installing = @ + 1, !.last = "install_ref"])
    \/ /\ tty.installing > 0
       /\ \E ok \in BOOLEAN :
             TtyDone(IF ok
                     THEN [tty EXCEPT !.installing = @ - 1,
                                      !.installed = @ + 1,
                                      !.last = "install_ok"]
                     ELSE [devcon_tty_unref(tty) EXCEPT
                              !.installing = @ - 1,
                              !.last = "install_error"])

\* the last close of a tty_struct
devcon_tops_cleanup ==
    /\ tty.installed > 0
    /\ TtyDone([devcon_tty_unref(tty) EXCEPT
                   !.installed = @ - 1, !.last = "cleanup"])

NextTty ==
    \/ devcon_tty_add
    \/ devcon_tty_remove
    \/ TtyOwnerUnref
    \/ devcon_tops_install
    \/ devcon_tops_cleanup

SpecTty == InitTty /\ [][NextTty]_vars

\* the references that are held on the TTY
TtyHeld(t) ==
    (IF t.owner THEN 1 ELSE 0) + (t.gets - t.puts)
        + t.installing + t.installed

\* C40: a TTY that is added and not removed is not destructed and no
\* WARN_ON fires; the reference count is the number of holders; the
\* registration reference is taken at most once and dropped only after it
\* was taken, exactly once when a remove has finished; a remove of a TTY
\* that was never added or was already removed changes nothing; and an
\* install takes its reference only on a TTY that is added and not removed.
TtyLifetime ==
    /\ [](/\ tty.added /\ ~tty.removed => ~tty.destructed
          /\ ~tty.warned
          /\ tty.kref = TtyHeld(tty)
          /\ tty.destructed <=> tty.kref = 0
          /\ tty.puts <= tty.gets /\ tty.gets <= 1
          /\ tty.pc = "idle" /\ tty.removed => tty.puts = tty.gets
          /\ tty.idr => tty.added /\ ~tty.removed)
    /\ [][/\ tty'.last = "remove_nothing" =>
                /\ tty.removed \/ ~tty.added
                /\ tty' = [tty EXCEPT !.last = "remove_nothing"]
          /\ tty'.last = "remove" => tty.added /\ ~tty.removed
          /\ tty'.last = "install_ref" =>
                /\ tty.added /\ ~tty.removed
                /\ tty'.added /\ ~tty'.removed]_vars

\* the owner dropped its reference before the remove, user-space has come
\* and gone, and the TTY lives on the registration reference alone
TtyLifetimeWitness ==
    /\ tty.added /\ ~tty.removed
    /\ ~tty.owner
    /\ tty.last = "cleanup"
    /\ tty.kref = 1
    /\ ~tty.destructed

====
